---- MODULE Spec2Model ----
(***************************************************************************)
(* The Edge Agent of offload_system: the /ingest and /execute handlers,    *)
(* the single ingest worker (slot advancement, first-sight detect, fine    *)
(* dispatch with offload), the durable store and the batch uploader.       *)
(*                                                                         *)
(* One action is one stretch of code between two suspension points of the  *)
(* asyncio tasks (a stage call, a remote call, a store query, the POST to  *)
(* the collector).  A stage call is two actions: the call going out        *)
(* (in_flight + 1) and the call coming back, which includes the store      *)
(* write that follows it and the code up to the next call going out.       *)
(***************************************************************************)
EXTENDS Integers, Sequences, FiniteSets, TLC

----------------------------------------------------------------------------
(* Bounds of the model *)

\* near slots are 0..MaxSlot
MaxSlot == 1
\* /ingest requests accepted in one run of the agent alone
MaxIngest == 3
\* rows the replayer sends in one run, the flush included
MaxReplay == 4
\* /execute requests served in one run
MaxExec == 1
\* batches the uploader may assemble in one run
MaxBatches == 2
\* cap of the counter of uploader rounds
RoundCap == 1
\* cfg.slot_seconds (SLOT_SECONDS), scaled down
SlotSeconds == 2
\* cfg.upload_every (UPLOAD_EVERY), scaled down
UploadEvery == 2
\* capacity of STATE.ingest_q, scaled down
QueueMax == 2
\* restarts of the agent on the same store file
MaxRestart == 1
\* requests a client of the collector sends on its own
MaxPosts == 3
\* _wait_event tasks left on the event are counted up to
MaxWaiters == 1
\* slot.py on its own: event times are multiples of 1/TimeUnit s from -MaxTime/TimeUnit s
\* to MaxTime/TimeUnit s, and slot_seconds runs from 1 to MaxSlotSeconds
TimeUnit == 2
MaxTime == 16
MaxSlotSeconds == 4

(* Program constants *)

\* cache entries older than new_slot - 50 are dropped
PruneHorizon == 50

NoSlot == -1
FlushPayload == "__flush__"
Payloads == {"pa"}
Self == "self"
Peers == <<"peer1">>
Origins == {"node2"}
NoTarget == "none"
NoHolder == "free"
DetectOutcomes == {"abnormal", "normal", "no_field", "raw", "fail"}

NearSlots == 0..MaxSlot
\* the first slot whose arrival prunes slot 0 from the caches
FarSlot == PruneHorizon + 1
\* an event time so far below zero that adding slot_seconds leaves it negative
NegTime == 0 - (SlotSeconds + 1)
EventTimes == {s * SlotSeconds : s \in NearSlots \cup {FarSlot}} \cup {NegTime}
ExecSlots == {0, 1}

----------------------------------------------------------------------------
VARIABLES
  \* state.py State
  ingest_q, active_slot, slot_payload_cache, detect_done_for_slot, in_flight,
  peers, upload_event,
  \* storage.py tables
  baseline, detect_result, fine_result, upload_mark,
  \* the ingest worker: position and locals
  w_pc, w_item, w_s, w_base, w_target,
  \* /execute requests being served
  exec_pending,
  \* the uploader: position and locals
  u_pc, batch_slots, batch_id, u_batch, post_ok,
  \* batches POSTed to the collector, by batch_id
  posts,
  \* the replayer: agent_last_et, whether the flush is sent, slots of the accepted items
  last_et, flushed, got_item,
  \* history: slots whose item arrived late, and those of them followed by an advancement
  late, late_adv,
  \* history: the payload of the first non-flush item processed for each slot in this run
  first_payload,
  \* history: the slots for which the estimate stage was invoked in this run
  est_calls,
  \* history: unmarked closed slots at the start of the quiet period, rounds since
  q_n, q_r, u_fresh,
  \* counters bounding the run
  n_ingest, n_exec, n_restart,
  \* the status of the last response of /ingest and /execute (0: none yet)
  http_status,
  \* the stage call that came back last and its ok flag
  last_call,
  \* state.py State.ewma: the stages whose EWMA has taken a sample (initialized)
  ewma,
  \* collector_pc: the four tables, the status of the last /upload_batch response and
  \* the number of requests answered ok
  upload_batches, baseline_all, detect_all, fine_all, c_status, c_served,
  \* policy.py on its own: a peer snapshot and the target picked from it
  pk_snapshot, pk_target,
  \* state.py State.lock: the task inside an `async with STATE.lock` block, or NoHolder
  lock,
  \* uploader.py: the shielded _wait_event tasks that timeouts of wait_for left waiting
  waiters,
  \* history: a baseline was persisted and upload_event set since the uploader last
  \* began a check of the unuploaded slots
  unchecked,
  \* slot.py on its own: the arguments of current_slot and the slot it returned
  sl_in, sl_out

state_vars == <<ingest_q, active_slot, slot_payload_cache, detect_done_for_slot,
                in_flight, peers, upload_event>>
store_vars == <<baseline, detect_result, fine_result, upload_mark>>
worker_vars == <<w_pc, w_item, w_s, w_base, w_target>>
upl_vars == <<u_pc, batch_slots, batch_id, u_batch, post_ok>>
replay_vars == <<last_et, flushed, got_item>>
late_vars == <<late, late_adv, first_payload, est_calls>>
quiet_vars == <<q_n, q_r, u_fresh>>
call_vars == <<last_call, ewma>>
coll_vars == <<upload_batches, baseline_all, detect_all, fine_all, c_status, c_served>>
pick_vars == <<pk_snapshot, pk_target>>
\* what only the collector, the picker on its own and a restart touch
sig_vars == <<waiters, unchecked>>
slot_vars == <<sl_in, sl_out>>
rest_vars == <<coll_vars, pick_vars, n_restart, sig_vars, slot_vars>>
aux_vars == <<rest_vars, lock>>
vars == <<state_vars, store_vars, worker_vars, exec_pending, upl_vars, posts,
          replay_vars, late_vars, quiet_vars, n_ingest, n_exec, http_status,
          call_vars, aux_vars>>

----------------------------------------------------------------------------
(* Helpers *)

Min(S) == CHOOSE x \in S : \A y \in S : x <= y

RECURSIVE SortedSeq(_)
SortedSeq(S) == IF S = {} THEN <<>> ELSE <<Min(S)>> \o SortedSeq(S \ {Min(S)})

Range(f) == {f[i] : i \in DOMAIN f}

NoItem == [slot |-> NoSlot, payload |-> FlushPayload]
NoBatch == [baseline |-> {}, detect |-> {}, fine |-> {}]
EmptyMap == [x \in {} |-> 0]
NoCall == [stage |-> "none", ok |-> TRUE]

\* the floor division without the clamp at zero
current_slot_unclamped(event_time, slot_seconds) == event_time \div slot_seconds

\* slot.py current_slot
current_slot(event_time, slot_seconds) ==
  (IF event_time < 0 THEN 0 ELSE event_time) \div slot_seconds

NoInput == [event_time |-> 0, slot_seconds |-> 0]

\* current_slot of the event time n/TimeUnit s: (n/TimeUnit) // slot_seconds is
\* n // (TimeUnit * slot_seconds), and n/TimeUnit < 0 is n < 0
slot_of_units(n, slot_seconds) == current_slot(n, TimeUnit * slot_seconds)

SlotTimes == (0 - MaxTime)..MaxTime

\* state.py PeerState defaults
PeerStateInit == [ok |-> FALSE, last_rtt_ms |-> 9999, node_id |-> "", node_type |-> "",
                  avg_fine |-> 0, in_flight |-> 0, queue_len |-> 0]

\* state.py State.peers: one PeerState per configured peer url
PeersInit(urls) == [i \in DOMAIN urls |-> PeerStateInit]

----------------------------------------------------------------------------
\* state.py State() and the empty store, but for the peers of the configuration
InitState ==
  /\ ingest_q = <<>>
  /\ active_slot = NoSlot
  /\ slot_payload_cache = EmptyMap
  /\ detect_done_for_slot = {}
  /\ in_flight = 0
  /\ upload_event = FALSE
  /\ baseline = EmptyMap
  /\ detect_result = EmptyMap
  /\ fine_result = <<>>
  /\ upload_mark = EmptyMap
  /\ w_pc = "idle"
  /\ w_item = NoItem
  /\ w_s = NoSlot
  /\ w_base = {}
  /\ w_target = NoTarget
  /\ exec_pending = {}
  /\ u_pc = "wait"
  /\ batch_slots = <<>>
  /\ batch_id = 0
  /\ u_batch = NoBatch
  /\ post_ok = TRUE
  /\ posts = EmptyMap
  /\ last_et = {}
  /\ flushed = FALSE
  /\ got_item = {}
  /\ late = {}
  /\ late_adv = {}
  /\ first_payload = EmptyMap
  /\ est_calls = {}
  /\ q_n = 0
  /\ q_r = 0
  /\ u_fresh = FALSE
  /\ n_ingest = 0
  /\ n_exec = 0
  /\ n_restart = 0
  /\ http_status = 0
  /\ last_call = NoCall
  /\ ewma = {}
  /\ upload_batches = EmptyMap
  /\ baseline_all = EmptyMap
  /\ detect_all = EmptyMap
  /\ fine_all = <<>>
  /\ c_status = 0
  /\ c_served = 0
  /\ pk_snapshot = <<>>
  /\ pk_target = NoTarget
  /\ lock = NoHolder
  /\ waiters = 0
  /\ unchecked = FALSE
  /\ sl_in = NoInput
  /\ sl_out = 0

\* the agent configured with the peer urls Peers
Init == InitState /\ peers = PeersInit(Peers)

----------------------------------------------------------------------------
(* The state lock *)

\* a block that does not give the lock back
lock_kept(task) == task

\* every `async with STATE.lock:` block of app.py and peers.py has a body without an
\* await: the lock is given back before the task reaches its next await
lock_after(task) == NoHolder

\* a step of `task` that runs `async with STATE.lock:` blocks: the lock is free when the
\* task gets to the first one (asyncio.Lock.acquire)
LockBlocks(task) ==
  /\ lock = NoHolder
  /\ lock' = lock_after(task)

----------------------------------------------------------------------------
(* The count of outstanding stage calls *)

\* app.py: `STATE.in_flight += 1` under the lock, before a stage call goes out
call_out(n) == n + 1

\* a call that comes back without being counted off
call_done_lost(n) == n

\* app.py: `STATE.in_flight -= 1` under the lock, after the stage call came back
call_done(n) == n - 1

----------------------------------------------------------------------------
(* POST /ingest *)

\* a queue that takes whatever it is given
never_full(q) == FALSE

\* state.py ingest_q = asyncio.Queue(maxsize): put_nowait raises QueueFull at maxsize items
full(q) == Len(q) >= QueueMax

\* app.py ingest: the slot of the event time, put_nowait, 429 when the queue is full
IngestRequest(event_time, payload) ==
  /\ IF full(ingest_q)
     THEN /\ http_status' = 429
          /\ UNCHANGED <<ingest_q, n_ingest>>
     ELSE /\ ingest_q' = Append(ingest_q, [slot |-> current_slot(event_time, SlotSeconds),
                                            payload |-> payload])
          /\ n_ingest' = n_ingest + 1
          /\ http_status' = 200
  /\ UNCHANGED <<active_slot, slot_payload_cache, detect_done_for_slot, in_flight,
                 peers, upload_event, store_vars, worker_vars, exec_pending,
                 upl_vars, posts, late_vars, quiet_vars, n_exec,
                 call_vars, aux_vars>>

\* any producer
Ingest(event_time, payload) ==
  /\ n_ingest < MaxIngest
  /\ IngestRequest(event_time, payload)
  /\ UNCHANGED replay_vars

\* replay.py main, the loop over the rows: agent_last_et is the event time of the row
\* sent last; got_item are the slots of the items the agent accepted
ReplaySend(event_time, payload) ==
  /\ ~flushed
  /\ n_ingest < MaxReplay - 1
  /\ IngestRequest(event_time, payload)
  /\ last_et' = {event_time}
  /\ got_item' = IF Len(ingest_q) >= QueueMax THEN got_item
                 ELSE got_item \cup {current_slot(event_time, SlotSeconds)}
  /\ UNCHANGED flushed

\* replay.py main, the end: one flush per agent at agent_last_et + slot_seconds
ReplayFlush ==
  /\ ~flushed
  /\ last_et # {}
  /\ Len(ingest_q) < QueueMax
  /\ \E et \in last_et : IngestRequest(et + SlotSeconds, FlushPayload)
  /\ flushed' = TRUE
  /\ UNCHANGED <<last_et, got_item>>

----------------------------------------------------------------------------
(* The durable store *)

\* created_ts of a row written now over the row `old` (a write counter stands for the clock)
NextTs(tbl, slot) == IF slot \in DOMAIN tbl THEN tbl[slot].ts + 1 ELSE 1

\* a store that keeps the results of successful calls only
upsert_baseline_if_ok(tbl, slot, payload, ok) ==
  IF ok THEN (slot :> [payload |-> payload, ok |-> ok, ts |-> NextTs(tbl, slot)]) @@ tbl
  ELSE tbl

\* storage.py upsert_baseline; the row holds the result of the estimate call on `payload`,
\* or with ok false the error object in its place
upsert_baseline(tbl, slot, payload, ok) ==
  (slot :> [payload |-> payload, ok |-> ok, ts |-> NextTs(tbl, slot)]) @@ tbl

\* a store that never finds a baseline
get_baseline_none(tbl, slot) == {}

\* storage.py get_baseline: the row's payload, or none
get_baseline(tbl, slot) == IF slot \in DOMAIN tbl THEN {tbl[slot]} ELSE {}

\* storage.py upsert_detect
upsert_detect(tbl, slot, abnormal, ok) ==
  (slot :> [abnormal |-> IF abnormal THEN 1 ELSE 0, ok |-> ok, ts |-> NextTs(tbl, slot)]) @@ tbl

\* storage.py insert_fine
insert_fine(tbl, slot, offloaded, executed_on, origin, ok) ==
  Append(tbl, [slot |-> slot, offloaded |-> IF offloaded THEN 1 ELSE 0,
               executed_on |-> executed_on, origin |-> origin,
               ok |-> IF ok THEN 1 ELSE 0])

\* the query without its WHERE u.slot IS NULL
list_baseline_slots(bl, marks) == SortedSeq(DOMAIN bl)

\* storage.py list_baseline_slots_not_uploaded: baseline LEFT JOIN upload_mark, ascending
list_baseline_slots_not_uploaded(bl, marks) == SortedSeq(DOMAIN bl \ DOMAIN marks)

\* storage.py mark_uploaded: INSERT OR REPLACE for every slot of the batch
mark_uploaded(marks, slots, bid) ==
  [s \in DOMAIN marks \cup Range(slots) |-> IF s \in Range(slots) THEN bid ELSE marks[s]]

\* storage.py export_batch, the baseline query
export_baseline(slots) ==
  {[slot |-> s, row |-> baseline[s]] : s \in Range(slots) \cap DOMAIN baseline}

\* storage.py fetch_detect_for_slots
fetch_detect_for_slots(slots) ==
  {[slot |-> s, row |-> detect_result[s]] : s \in Range(slots) \cap DOMAIN detect_result}

\* storage.py fetch_fine_for_slots
fetch_fine_for_slots(slots) ==
  {[id |-> i, row |-> fine_result[i]] :
     i \in {j \in DOMAIN fine_result : fine_result[j].slot \in Range(slots)}}

Unmarked(bl, marks) == Cardinality(DOMAIN bl \ DOMAIN marks)

----------------------------------------------------------------------------
(* Peer monitor and offload policy *)

RttValues == {5}
HealthData == {[node_id |-> "node2", node_type |-> "edge", avg_fine |-> 0,
                in_flight |-> 0, queue_len |-> 0]}

\* peers.py refresh_peers_loop: data.get(key, default) on the /health response
HealthField(data, key, default) == IF key \in DOMAIN data THEN data[key] ELSE default

\* a failed probe starts the peer over from the PeerState defaults
ProbedFresh(ps, ok, rtt, data) ==
  IF ok THEN [ok |-> TRUE, last_rtt_ms |-> rtt,
              node_id |-> HealthField(data, "node_id", ""),
              node_type |-> HealthField(data, "node_type", ""),
              avg_fine |-> HealthField(data, "avg_fine", 0),
              in_flight |-> HealthField(data, "in_flight", 0),
              queue_len |-> HealthField(data, "queue_len", 0)]
  ELSE [PeerStateInit EXCEPT !.last_rtt_ms = rtt]

\* peers.py refresh_peers_loop, the update of one PeerState under the lock: rtt and ok
\* always, the fields of the response only `if ok`
Probed(ps, ok, rtt, data) ==
  IF ok THEN [ok |-> TRUE, last_rtt_ms |-> rtt,
              node_id |-> HealthField(data, "node_id", ""),
              node_type |-> HealthField(data, "node_type", ""),
              avg_fine |-> HealthField(data, "avg_fine", 0),
              in_flight |-> HealthField(data, "in_flight", 0),
              queue_len |-> HealthField(data, "queue_len", 0)]
  ELSE [ps EXCEPT !.ok = FALSE, !.last_rtt_ms = rtt]

\* peers.py refresh_peers_loop, one probe of one peer
RefreshPeer(i, ok, rtt, data) ==
  /\ peers' = [peers EXCEPT ![i] = Probed(@, ok, rtt, data)]
  /\ UNCHANGED <<ingest_q, active_slot, slot_payload_cache, detect_done_for_slot, in_flight,
                 upload_event, store_vars, worker_vars, exec_pending, upl_vars, posts,
                 replay_vars, late_vars, quiet_vars, n_ingest, n_exec,
                 http_status, call_vars, rest_vars>>
  /\ LockBlocks("peers")

\* policy.py score
score(ps) == ps.last_rtt_ms + ps.avg_fine + 30 * ps.in_flight + 10 * ps.queue_len

\* a later peer wins a tie
NotWorse(s, best_score) == s <= best_score

\* policy.py pick_target_for_fine: score < best_score
Better(s, best_score) == s < best_score

\* policy.py pick_target_for_fine, the loop over peers.items() from the i-th entry on;
\* urls are the keys of the dict in iteration order, snapshot their PeerStates
RECURSIVE PickFrom(_, _, _, _, _)
PickFrom(urls, snapshot, i, best_url, best_score) ==
  IF i > Len(urls) THEN best_url
  ELSE IF ~snapshot[i].ok THEN PickFrom(urls, snapshot, i + 1, best_url, best_score)
  ELSE IF best_url = NoTarget \/ Better(score(snapshot[i]), best_score)
       THEN PickFrom(urls, snapshot, i + 1, urls[i], score(snapshot[i]))
       ELSE PickFrom(urls, snapshot, i + 1, best_url, best_score)

\* the first peer of the dict, whatever its health
pick_any_peer(urls, snapshot) == IF urls = <<>> THEN NoTarget ELSE urls[1]

\* the first peer that was probed at all, whatever the outcome of its last probe
pick_probed_peer(urls, snapshot) ==
  LET seen == {i \in DOMAIN urls : snapshot[i].last_rtt_ms # PeerStateInit.last_rtt_ms} IN
  IF seen = {} THEN NoTarget ELSE urls[Min(seen)]

\* policy.py pick_target_for_fine
pick_target_for_fine(urls, snapshot) == PickFrom(urls, snapshot, 1, NoTarget, 0)

\* the policy on its own: a dict of up to three peers in any state of health and load
PickUrls == <<"peer1", "peer2", "peer3">>

\* a light peer and the peers that reach the same score by one term each
PickStates ==
  {ps \in [ok : BOOLEAN, last_rtt_ms : {5, 35}, avg_fine : {0, 30},
           in_flight : {0, 1}, queue_len : {0, 3}] : score(ps) <= 35}

\* pick_target_for_fine applied to the snapshot snap of the first n peers
PickStep(n, snap) ==
  /\ pk_snapshot' = snap
  /\ pk_target' = pick_target_for_fine(SubSeq(PickUrls, 1, n), snap)
  /\ UNCHANGED <<state_vars, store_vars, worker_vars, exec_pending, upl_vars, posts,
                 replay_vars, late_vars, quiet_vars, n_ingest, n_exec, http_status,
                 call_vars, coll_vars, n_restart, slot_vars, lock, sig_vars>>

----------------------------------------------------------------------------
(* The ingest worker *)

\* the guard written with == in place of <=
NoAdvanceOnlyEqual(active, new_slot) == new_slot = active

\* app.py _maybe_advance_slot_and_close: nothing to do for new_slot <= active
NoAdvance(active, new_slot) == new_slot <= active

\* app.py _maybe_advance_slot_and_close: entries older than new_slot - 50 are dropped
Pruned(old, new_slot) == old < new_slot - PruneHorizon

PruneCache(cache, new_slot) ==
  [s \in {k \in DOMAIN cache : ~Pruned(k, new_slot)} |-> cache[s]]

PruneDone(done, new_slot) == {k \in done : ~Pruned(k, new_slot)}

\* every answer but a well-formed "normal" raises the flag
AbnormalUnlessNormal(outcome) == outcome # "normal"

\* app.py _run_detect_and_maybe_fine: bool(result.get("abnormal", False)) when the call
\* is ok, False when it failed; a 2xx body that is not JSON comes back as {"raw": text}
Abnormal(outcome) == outcome = "abnormal"

\* the worker is back at ingest_q.get(): its locals are gone
WorkerIdle ==
  /\ w_pc' = "idle"
  /\ w_item' = NoItem
  /\ w_s' = NoSlot
  /\ w_base' = {}
  /\ w_target' = NoTarget

\* a worker that takes a flush for an item like any other
never_flush(payload) == FALSE

\* app.py _process_ingest_item: payload.get("__flush__") is True
is_flush(payload) == payload = FlushPayload

\* app.py _process_ingest_item after the advancement: the cache write, the first-sight
\* check, and _run_detect_and_maybe_fine up to its query of the previous slot's baseline
AfterAdvance(item, cache, done, inf, bl) ==
  IF is_flush(item.payload)
  THEN /\ slot_payload_cache' = cache
       /\ detect_done_for_slot' = done
       /\ in_flight' = inf
       /\ first_payload' = first_payload
       /\ WorkerIdle
  ELSE /\ slot_payload_cache' = (item.slot :> item.payload) @@ cache
       /\ first_payload' = first_payload @@ (item.slot :> item.payload)
       /\ in_flight' = inf
       /\ IF item.slot \in done
          THEN /\ detect_done_for_slot' = done
               /\ WorkerIdle
          ELSE /\ detect_done_for_slot' = done \cup {item.slot}
               /\ w_pc' = "get_baseline"
               /\ w_item' = item
               /\ w_base' = {}
               /\ w_s' = NoSlot
               /\ w_target' = NoTarget

\* an advancement that closes nothing
to_close_none(cache, from, new_slot) == {}

\* every slot of the range, with or without a cached payload
to_close_all(cache, from, new_slot) == {s \in from..(new_slot - 1) : TRUE}

\* app.py _maybe_advance_slot_and_close: the slots s of range(from, new_slot) whose
\* cache.get(s) is not None
to_close(cache, from, new_slot) == {s \in DOMAIN cache : from <= s /\ s < new_slot}

\* STATE.slot_payload_cache.get(s)
cached(cache, s) == IF s \in DOMAIN cache THEN cache[s] ELSE "None"

\* app.py _maybe_advance_slot_and_close, the loop over range(active, new_slot) from
\* `from` on: up to the next estimate call going out, or to the end of the advancement
ContinueClosing(item, from, inf, bl) ==
  LET todo == to_close(slot_payload_cache, from, item.slot) IN
  IF todo # {}
  THEN /\ w_pc' = "estimate"
       /\ w_s' = Min(todo)
       /\ w_item' = item
       /\ in_flight' = call_out(inf)
       /\ est_calls' = est_calls \cup {Min(todo)}
       /\ UNCHANGED <<active_slot, slot_payload_cache, detect_done_for_slot, w_base,
                      w_target, late_adv, first_payload>>
  ELSE /\ active_slot' = item.slot
       /\ late_adv' = late_adv \cup late
       /\ est_calls' = est_calls
       /\ AfterAdvance(item, PruneCache(slot_payload_cache, item.slot),
                       PruneDone(detect_done_for_slot, item.slot), inf, bl)

\* a queue that hands out the newest item first
q_get_newest(q) == [item |-> q[Len(q)], rest |-> SubSeq(q, 1, Len(q) - 1)]

\* state.py ingest_q = asyncio.Queue: get() hands out the oldest item
q_get(q) == [item |-> Head(q), rest |-> Tail(q)]

\* app.py _worker_loop and _process_ingest_item: take the next item
WorkerTake ==
  /\ w_pc = "idle"
  /\ ingest_q # <<>>
  /\ LET item == q_get(ingest_q).item IN
     /\ ingest_q' = q_get(ingest_q).rest
     /\ IF active_slot = NoSlot
        THEN /\ active_slot' = item.slot
             /\ AfterAdvance(item, slot_payload_cache, detect_done_for_slot, in_flight, baseline)
             /\ UNCHANGED <<late, late_adv, est_calls>>
        ELSE IF NoAdvance(active_slot, item.slot)
        THEN /\ active_slot' = active_slot
             /\ AfterAdvance(item, slot_payload_cache, detect_done_for_slot, in_flight, baseline)
             /\ late' = IF item.payload # FlushPayload /\ item.slot < active_slot
                        THEN late \cup {item.slot} ELSE late
             /\ late_adv' = late_adv
             /\ est_calls' = est_calls
        ELSE /\ ContinueClosing(item, active_slot, in_flight, baseline)
             /\ late' = late
  /\ UNCHANGED <<peers, upload_event, store_vars, exec_pending, upl_vars, posts,
                 replay_vars, quiet_vars, n_ingest, n_exec,
                 http_status, call_vars, rest_vars>>
  /\ LockBlocks("worker")

\* app.py _run_estimate coming back: the baseline row is written whatever ok is,
\* upload_event is set, and the loop goes on
EstimateReturns(ok) ==
  /\ w_pc = "estimate"
  /\ LET bl == upsert_baseline(baseline, w_s, cached(slot_payload_cache, w_s), ok) IN
     /\ baseline' = bl
     /\ upload_event' = TRUE
     /\ ContinueClosing(w_item, w_s + 1, call_done(in_flight), bl)
     /\ q_n' = Unmarked(bl, upload_mark)
  /\ q_r' = 0
  /\ u_fresh' = FALSE
  /\ last_call' = [stage |-> "estimate", ok |-> ok]
  /\ ewma' = ewma \cup {"estimate"}
  /\ unchecked' = TRUE
  /\ UNCHANGED <<ingest_q, peers, detect_result, fine_result, upload_mark, exec_pending,
                 upl_vars, posts, replay_vars, late, n_ingest, n_exec,
                 http_status, coll_vars, pick_vars, n_restart, slot_vars, waiters>>
  /\ LockBlocks("worker")

\* app.py _run_detect_and_maybe_fine: storage.get_baseline(slot - 1) coming back, and the
\* detect call going out with it
GetBaselineReturns ==
  /\ w_pc = "get_baseline"
  /\ w_base' = get_baseline(baseline, w_item.slot - 1)
  /\ in_flight' = call_out(in_flight)
  /\ w_pc' = "detect"
  /\ UNCHANGED <<ingest_q, active_slot, slot_payload_cache, detect_done_for_slot, peers,
                 upload_event, store_vars, w_item, w_s, w_target, exec_pending, upl_vars,
                 posts, replay_vars, late_vars, quiet_vars, n_ingest, n_exec,
                 http_status, call_vars, rest_vars>>
  /\ LockBlocks("worker")

\* app.py _run_detect_and_maybe_fine coming back: the detect row, then for an abnormal
\* slot _run_fine_with_offload up to the remote or local call going out
DetectReturns(outcome) ==
  /\ w_pc = "detect"
  /\ detect_result' = upsert_detect(detect_result, w_item.slot, Abnormal(outcome),
                                    outcome # "fail")
  /\ IF Abnormal(outcome)
     THEN LET target == pick_target_for_fine(Peers, peers) IN
          /\ w_target' = target
          /\ w_pc' = IF target # NoTarget THEN "remote" ELSE "fine"
          /\ in_flight' = call_out(call_done(in_flight))
          /\ UNCHANGED <<w_item, w_s, w_base>>
     ELSE /\ in_flight' = call_done(in_flight)
          /\ WorkerIdle
  /\ last_call' = [stage |-> "detect", ok |-> outcome # "fail"]
  /\ ewma' = ewma \cup {"detect"}
  /\ UNCHANGED <<ingest_q, active_slot, slot_payload_cache, detect_done_for_slot, peers,
                 upload_event, baseline, fine_result, upload_mark, exec_pending, upl_vars,
                 posts, replay_vars, late_vars, quiet_vars, n_ingest, n_exec,
                 http_status, rest_vars>>
  /\ LockBlocks("worker")

\* a remote call that is never taken as done
RemoteNeverSucceeds(ok) == FALSE

\* app.py _run_fine_with_offload: `if ok:` after call_execute_remote, insert and return
RemoteSucceeded(ok) == ok

\* only a successful remote attempt leaves a row
RemoteRowIfOk(tbl, slot, target, ok) ==
  IF ok THEN insert_fine(tbl, slot, TRUE, target, Self, ok) ELSE tbl

\* app.py _run_fine_with_offload: the row of the remote attempt, done or failed
RemoteRow(tbl, slot, target, ok) == insert_fine(tbl, slot, TRUE, target, Self, ok)

\* app.py _run_fine_with_offload, call_execute_remote coming back
RemoteReturns(ok) ==
  /\ w_pc = "remote"
  /\ fine_result' = RemoteRow(fine_result, w_item.slot, w_target, ok)
  /\ IF RemoteSucceeded(ok)
     THEN /\ in_flight' = call_done(in_flight)
          /\ WorkerIdle
     ELSE /\ in_flight' = call_out(call_done(in_flight))
          /\ w_pc' = "fine"
          /\ UNCHANGED <<w_item, w_s, w_base, w_target>>
  /\ last_call' = [stage |-> "remote", ok |-> ok]
  /\ ewma' = ewma \cup {"fine_remote"}
  /\ UNCHANGED <<ingest_q, active_slot, slot_payload_cache, detect_done_for_slot, peers,
                 upload_event, baseline, detect_result, upload_mark, exec_pending, upl_vars,
                 posts, replay_vars, late_vars, quiet_vars, n_ingest, n_exec,
                 http_status, rest_vars>>
  /\ LockBlocks("worker")

\* app.py _run_fine_with_offload, the local call_fine coming back
FineReturns(ok) ==
  /\ w_pc = "fine"
  /\ fine_result' = insert_fine(fine_result, w_item.slot, FALSE, Self, Self, ok)
  /\ in_flight' = call_done(in_flight)
  /\ WorkerIdle
  /\ last_call' = [stage |-> "fine", ok |-> ok]
  /\ ewma' = ewma \cup {"fine"}
  /\ UNCHANGED <<ingest_q, active_slot, slot_payload_cache, detect_done_for_slot, peers,
                 upload_event, baseline, detect_result, upload_mark, exec_pending, upl_vars,
                 posts, replay_vars, late_vars, quiet_vars, n_ingest, n_exec,
                 http_status, rest_vars>>
  /\ LockBlocks("worker")

\* the worker task ends with the exception of the item it was on
Propagated ==
  /\ w_pc' = "dead"
  /\ w_item' = NoItem
  /\ w_s' = NoSlot
  /\ w_base' = {}
  /\ w_target' = NoTarget

\* app.py _worker_loop: `except Exception: pass`, task_done, and back to ingest_q.get()
Swallowed == WorkerIdle

\* the stage of the EWMA and of the call record for the worker's position
StageKey(pc) == IF pc = "remote" THEN "fine_remote" ELSE pc

\* app.py _run_estimate, _run_detect_and_maybe_fine, _run_fine_with_offload: the stage
\* call comes back, in_flight and the EWMA are updated, and the store write that follows
\* (upsert_baseline, upsert_detect, insert_fine) raises; the exception unwinds
\* _process_ingest_item up to _worker_loop
StoreWriteRaises(ok) ==
  /\ w_pc \in {"estimate", "detect", "remote", "fine"}
  /\ in_flight' = call_done(in_flight)
  /\ last_call' = [stage |-> w_pc, ok |-> ok]
  /\ ewma' = ewma \cup {StageKey(w_pc)}
  /\ Swallowed
  /\ UNCHANGED <<ingest_q, active_slot, slot_payload_cache, detect_done_for_slot, peers,
                 upload_event, store_vars, exec_pending, upl_vars, posts, replay_vars,
                 late_vars, quiet_vars, n_ingest, n_exec, http_status, rest_vars>>
  /\ LockBlocks("worker")

\* app.py _run_detect_and_maybe_fine: storage.get_baseline(slot - 1) raises, before any
\* call went out
GetBaselineRaises ==
  /\ w_pc = "get_baseline"
  /\ Swallowed
  /\ UNCHANGED <<ingest_q, active_slot, slot_payload_cache, detect_done_for_slot, in_flight,
                 peers, upload_event, store_vars, exec_pending, upl_vars, posts,
                 replay_vars, late_vars, quiet_vars, n_ingest, n_exec, http_status,
                 call_vars, aux_vars>>

----------------------------------------------------------------------------
(* POST /execute *)

\* a handler that serves any stage
AnyStage(stage) == TRUE

\* app.py execute: req.stage != "fine" is refused
Supported(stage) == stage = "fine"

\* app.py execute up to call_fine going out; a stage other than fine is refused (400)
ExecuteStart(stage, slot, origin) ==
  /\ n_exec < MaxExec
  /\ IF ~Supported(stage)
     THEN /\ http_status' = 400
          /\ UNCHANGED <<state_vars, store_vars, worker_vars, exec_pending, upl_vars,
                         posts, replay_vars, late_vars, quiet_vars, n_ingest, n_exec,
                         call_vars, aux_vars>>
     ELSE /\ [stage |-> stage, slot |-> slot, origin |-> origin] \notin exec_pending
          /\ exec_pending' = exec_pending \cup
                               {[stage |-> stage, slot |-> slot, origin |-> origin]}
          /\ in_flight' = call_out(in_flight)
          /\ n_exec' = n_exec + 1
          /\ LockBlocks("execute")
          /\ UNCHANGED <<ingest_q, active_slot, slot_payload_cache, detect_done_for_slot,
                         peers, upload_event, store_vars, worker_vars, upl_vars, posts,
                         replay_vars, late_vars, quiet_vars, n_ingest,
                         http_status, call_vars, rest_vars>>

\* a handler that records only the work that succeeded
ExecuteRowIfOk(tbl, req, ok) ==
  IF ok THEN insert_fine(tbl, req.slot, TRUE, Self, req.origin, ok) ELSE tbl

\* app.py execute: insert_fine(offloaded=True, executed_on=cfg.node_id, origin=req.origin,
\* ok=ok), whatever ok is
ExecuteRow(tbl, req, ok) == insert_fine(tbl, req.slot, TRUE, Self, req.origin, ok)

\* app.py execute, call_fine coming back: the row of the work done for another origin
ExecuteReturns(req, ok) ==
  /\ req \in exec_pending
  /\ exec_pending' = exec_pending \ {req}
  /\ in_flight' = call_done(in_flight)
  /\ fine_result' = ExecuteRow(fine_result, req, ok)
  /\ last_call' = [stage |-> "execute", ok |-> ok]
  /\ ewma' = ewma \cup {"fine"}
  /\ http_status' = 200
  /\ UNCHANGED <<ingest_q, active_slot, slot_payload_cache, detect_done_for_slot, peers,
                 upload_event, baseline, detect_result, upload_mark, worker_vars, upl_vars,
                 posts, replay_vars, late_vars, quiet_vars, n_ingest, n_exec,
                 rest_vars>>
  /\ LockBlocks("execute")

----------------------------------------------------------------------------
(* The collector: POST /upload_batch *)

\* the row of `rows` that comes first in ORDER BY slot, id
FirstFine(rows) ==
  CHOOSE r \in rows : \A q \in rows :
    r.row.slot < q.row.slot \/ (r.row.slot = q.row.slot /\ r.id <= q.id)

\* storage.py fetch_fine_for_slots hands the rows over ORDER BY slot, id
RECURSIVE FineList(_)
FineList(rows) ==
  IF rows = {} THEN <<>> ELSE <<FirstFine(rows)>> \o FineList(rows \ {FirstFine(rows)})

\* uploader.py uploader_loop: batch_payload, the export under batch_id and cfg.node_id
BatchPayload(bid, node, batch) ==
  [batch_id |-> bid, node_id |-> node, slots |-> batch.slots,
   baseline |-> batch.baseline, detect |-> batch.detect, fine |-> FineList(batch.fine)]

\* the dedup test that never finds the batch
batch_never_exists(batches, bid) == FALSE

\* collector_pc insert_batch: SELECT 1 FROM upload_batches WHERE batch_id=?
batch_exists(batches, bid) == bid \in DOMAIN batches

\* collector_pc insert_batch: INSERT OR REPLACE of the rows under (node_id, slot)
replace_all(tbl, node, rows) ==
  [k \in DOMAIN tbl \cup {<<node, r.slot>> : r \in rows} |->
     IF \E r \in rows : k = <<node, r.slot>>
     THEN (CHOOSE r \in rows : k = <<node, r.slot>>).row
     ELSE tbl[k]]

\* collector_pc insert_batch: plain INSERT of every fine row, in the order of the list
RECURSIVE insert_all(_, _, _)
insert_all(tbl, node, rows) ==
  IF rows = <<>> THEN tbl
  ELSE insert_all(Append(tbl, [node_id |-> node, created |-> Head(rows).id,
                               row |-> Head(rows).row]), node, Tail(rows))

\* collector_pc insert_batch
insert_batch(b) ==
  IF batch_exists(upload_batches, b.batch_id)
  THEN UNCHANGED <<upload_batches, baseline_all, detect_all, fine_all>>
  ELSE /\ upload_batches' = (b.batch_id :> [node_id |-> b.node_id, slots |-> b.slots])
                              @@ upload_batches
       /\ baseline_all' = replace_all(baseline_all, b.node_id, b.baseline)
       /\ detect_all' = replace_all(detect_all, b.node_id, b.detect)
       /\ fine_all' = insert_all(fine_all, b.node_id, b.fine)

\* collector_pc upload_batch: 400 without batch_id or node_id, else insert_batch and ok
upload_batch(req) ==
  IF req.batch_id = 0 \/ req.node_id = ""
  THEN /\ c_status' = 400
       /\ UNCHANGED <<upload_batches, baseline_all, detect_all, fine_all, c_served>>
  ELSE /\ insert_batch(req)
       /\ c_status' = 200
       /\ c_served' = c_served + 1

\* the requests of a client of the collector: with and without batch_id, of two nodes,
\* for one slot,
\* with or without a row of each kind
BatchReqs ==
  [batch_id : 0..MaxBatches, node_id : {Self} \cup Origins, slots : {<<0>>},
   baseline : {{}, {[slot |-> 0, row |-> [payload |-> "pa", ok |-> TRUE, ts |-> 1]]}},
   detect : {{}, {[slot |-> 0, row |-> [abnormal |-> 1, ok |-> TRUE, ts |-> 1]]}},
   fine : {<<>>, <<[id |-> 1, row |-> [slot |-> 0, offloaded |-> 0, executed_on |-> Self,
                                      origin |-> Self, ok |-> 1]]>>}]

\* a client POSTs req to /upload_batch
PostBatch(req) ==
  /\ c_served < MaxPosts
  /\ upload_batch(req)
  /\ UNCHANGED <<state_vars, store_vars, worker_vars, exec_pending, upl_vars, posts,
                 replay_vars, late_vars, quiet_vars, n_ingest, n_exec, http_status,
                 call_vars, pick_vars, n_restart, slot_vars, lock, sig_vars>>

----------------------------------------------------------------------------
(* The batch uploader *)

\* a batch as soon as one slot is closed
BatchDueAnySlot(slots) == Len(slots) >= 1

\* uploader.py uploader_loop: len(slots) < cfg.upload_every means wait again
BatchDue(slots) == ~(Len(slots) < UploadEvery)

\* the last upload_every slots in place of the first
LastSlots(slots) == SubSeq(slots, Len(slots) - UploadEvery + 1, Len(slots))

\* uploader.py uploader_loop: slots[: cfg.upload_every]
FirstSlots(slots) ==
  SubSeq(slots, 1, IF Len(slots) < UploadEvery THEN Len(slots) ELSE UploadEvery)

\* the mark written whatever the POST returned
PostIgnored(ok) == TRUE

\* uploader.py uploader_loop: mark_uploaded only if the POST was ok
PostSucceeded(ok) == ok

\* the slots the store lists now
ListNow == list_baseline_slots_not_uploaded(baseline, upload_mark)

RoundsAfter == IF q_r < RoundCap THEN q_r + 1 ELSE q_r

\* uploader.py uploader_loop, asyncio.shield: the timeout cancels wait_for, and the
\* _wait_event task inside the shield stays on the event
left_waiting(n) == IF n < MaxWaiters THEN n + 1 ELSE n

\* uploader.py uploader_loop and _wait_event: upload_event fires, every task waiting for
\* it clears it and ends, that of this pass among them; or the uploader_check_seconds
\* timer runs out and the task of this pass is left waiting
UploaderWake ==
  /\ u_pc = "wait"
  /\ u_pc' = "list"
  /\ upload_event' = FALSE
  /\ waiters' = IF upload_event THEN 0 ELSE left_waiting(waiters)
  /\ UNCHANGED <<ingest_q, active_slot, slot_payload_cache, detect_done_for_slot, in_flight,
                 peers, store_vars, worker_vars, exec_pending, batch_slots, batch_id,
                 u_batch, post_ok, posts, replay_vars, late_vars, quiet_vars, n_ingest,
                 n_exec,
                 http_status, call_vars, coll_vars, pick_vars, n_restart, slot_vars, lock, unchecked>>

\* tasks left waiting that clear the event from under a waiting loop
runs_alone_anywhere(pc) == TRUE

\* asyncio.Event.set resolves the future of every task waiting: the tasks left waiting
\* run without the loop only when the loop is not in wait_for
runs_alone(pc) == pc # "wait"

\* uploader.py _wait_event in the tasks left waiting: upload_event was set while the
\* loop was busy; they return from wait(), clear the event and end
WaitersClear ==
  /\ upload_event
  /\ waiters > 0
  /\ runs_alone(u_pc)
  /\ upload_event' = FALSE
  /\ waiters' = 0
  /\ UNCHANGED <<ingest_q, active_slot, slot_payload_cache, detect_done_for_slot, in_flight,
                 peers, store_vars, worker_vars, exec_pending, upl_vars, posts,
                 replay_vars, late_vars, quiet_vars, n_ingest, n_exec,
                 http_status, call_vars, coll_vars, pick_vars, n_restart, slot_vars, lock, unchecked>>

\* uploader.py uploader_loop: list the closed slots without a mark; too few: wait again;
\* else take the first upload_every of them under a fresh batch_id
UploaderList ==
  /\ u_pc = "list"
  /\ IF BatchDue(ListNow)
     THEN /\ batch_id < MaxBatches
          /\ batch_slots' = FirstSlots(ListNow)
          /\ batch_id' = batch_id + 1
          /\ u_pc' = "export_baseline"
          /\ u_fresh' = TRUE
          /\ UNCHANGED <<q_n, q_r>>
     ELSE /\ u_pc' = "wait"
          /\ q_r' = RoundsAfter
          /\ UNCHANGED <<batch_slots, batch_id, q_n, u_fresh>>
  /\ unchecked' = FALSE
  /\ UNCHANGED <<state_vars, store_vars, worker_vars, exec_pending, u_batch, post_ok, posts,
                 replay_vars, late_vars, n_ingest, n_exec,
                 http_status, call_vars, coll_vars, pick_vars, n_restart, slot_vars, lock, waiters>>

\* storage.py export_batch: the baseline rows of the batch's slots
UploaderExportBaseline ==
  /\ u_pc = "export_baseline"
  /\ u_batch' = [NoBatch EXCEPT !.baseline = export_baseline(batch_slots)]
  /\ u_pc' = "export_detect"
  /\ UNCHANGED <<state_vars, store_vars, worker_vars, exec_pending, batch_slots, batch_id,
                 post_ok, posts, replay_vars, late_vars, quiet_vars, n_ingest, n_exec,
                 http_status, call_vars, aux_vars>>

\* storage.py export_batch: the detect rows of the batch's slots
UploaderExportDetect ==
  /\ u_pc = "export_detect"
  /\ u_batch' = [u_batch EXCEPT !.detect = fetch_detect_for_slots(batch_slots)]
  /\ u_pc' = "export_fine"
  /\ UNCHANGED <<state_vars, store_vars, worker_vars, exec_pending, batch_slots, batch_id,
                 post_ok, posts, replay_vars, late_vars, quiet_vars, n_ingest, n_exec,
                 http_status, call_vars, aux_vars>>

\* storage.py export_batch: the fine rows of the batch's slots; uploader.py: the batch
\* is POSTed to the collector
UploaderExportFine ==
  /\ u_pc = "export_fine"
  /\ posts' = (batch_id :> [slots |-> batch_slots, baseline |-> u_batch.baseline,
                           detect |-> u_batch.detect,
                           fine |-> fetch_fine_for_slots(batch_slots)]) @@ posts
  /\ u_batch' = NoBatch
  /\ u_pc' = "post"
  /\ UNCHANGED <<state_vars, store_vars, worker_vars, exec_pending, batch_slots, batch_id,
                 post_ok, replay_vars, late_vars, quiet_vars, n_ingest, n_exec,
                 http_status, call_vars, aux_vars>>

\* uploader.py _post_json coming back: ok, or a transport error, timeout or non-2xx;
\* the collector has served the request (delivered) or never saw it, and a request that
\* was served can still come back as a failure (the response lost or late)
UploaderPostReturns(delivered, ok) ==
  /\ u_pc = "post"
  /\ ok => delivered
  /\ IF delivered
     THEN /\ upload_batch(BatchPayload(batch_id, Self, posts[batch_id]))
          /\ ok => c_status' = 200
     ELSE UNCHANGED coll_vars
  /\ post_ok' = ok
  /\ IF PostSucceeded(ok)
     THEN /\ u_pc' = "mark"
          /\ UNCHANGED quiet_vars
     ELSE /\ u_pc' = "wait"
          /\ q_n' = Unmarked(baseline, upload_mark)
          /\ q_r' = 0
          /\ u_fresh' = FALSE
  /\ UNCHANGED <<state_vars, store_vars, worker_vars, exec_pending, batch_slots, batch_id,
                 u_batch, posts, replay_vars, late_vars, n_ingest, n_exec,
                 http_status, call_vars, pick_vars, n_restart, slot_vars, lock, sig_vars>>

\* storage.py mark_uploaded for the batch just accepted
UploaderMark ==
  /\ u_pc = "mark"
  /\ LET marks == mark_uploaded(upload_mark, batch_slots, batch_id) IN
     /\ upload_mark' = marks
     /\ IF u_fresh
        THEN /\ q_r' = RoundsAfter
             /\ q_n' = q_n
        ELSE /\ q_r' = 0
             /\ q_n' = Unmarked(baseline, marks)
  /\ u_fresh' = FALSE
  /\ u_pc' = "wait"
  /\ UNCHANGED <<state_vars, baseline, detect_result, fine_result, worker_vars, exec_pending,
                 batch_slots, batch_id, u_batch, post_ok, posts, replay_vars, late_vars,
                 n_ingest, n_exec,
                 http_status, call_vars, aux_vars>>

----------------------------------------------------------------------------
(* Restart of the agent on the same store file *)

\* a store whose tables are created anew at every start
RecreateTable(tbl) == EmptyMap

\* storage.py _init_schema: CREATE TABLE IF NOT EXISTS keeps the rows of an existing file
ReopenTable(tbl) == tbl

\* the process ends at any point and _startup runs again: STATE is built anew, the tasks
\* and the requests in progress are gone, the store file keeps every committed row; a
\* POST that was outstanding has been served by the collector or not; the replayer
\* starts over as well.  batch_id keeps counting: uuid4 never repeats.
Restart(delivered) ==
  /\ n_restart < MaxRestart
  /\ n_restart' = n_restart + 1
  /\ delivered => u_pc = "post"
  /\ IF delivered
     THEN upload_batch(BatchPayload(batch_id, Self, posts[batch_id]))
     ELSE UNCHANGED coll_vars
  /\ ingest_q' = <<>>
  /\ active_slot' = NoSlot
  /\ slot_payload_cache' = EmptyMap
  /\ detect_done_for_slot' = {}
  /\ in_flight' = 0
  /\ peers' = PeersInit(Peers)
  /\ upload_event' = FALSE
  /\ baseline' = ReopenTable(baseline)
  /\ detect_result' = ReopenTable(detect_result)
  /\ fine_result' = fine_result
  /\ upload_mark' = ReopenTable(upload_mark)
  /\ WorkerIdle
  /\ exec_pending' = {}
  /\ u_pc' = "wait"
  /\ batch_slots' = <<>>
  /\ u_batch' = NoBatch
  /\ post_ok' = TRUE
  /\ last_et' = {}
  /\ flushed' = FALSE
  /\ got_item' = {}
  /\ late' = {}
  /\ late_adv' = {}
  /\ first_payload' = EmptyMap
  /\ est_calls' = {}
  /\ q_n' = Unmarked(baseline, upload_mark)
  /\ q_r' = 0
  /\ u_fresh' = FALSE
  /\ n_ingest' = 0
  /\ http_status' = 0
  /\ last_call' = NoCall
  /\ ewma' = {}
  /\ lock' = lock_after("startup")
  /\ waiters' = 0
  /\ unchecked' = FALSE
  /\ UNCHANGED <<batch_id, posts, n_exec, pick_vars, slot_vars>>

----------------------------------------------------------------------------
\* the agent without its uploader, fed by any producer
Next ==
  \/ \E et \in EventTimes, p \in Payloads \cup {FlushPayload} : Ingest(et, p)
  \/ WorkerTake
  \/ GetBaselineReturns
  \/ \E ok \in BOOLEAN : EstimateReturns(ok)
  \/ \E outcome \in DetectOutcomes : DetectReturns(outcome)
  \/ \E ok \in BOOLEAN : RemoteReturns(ok)
  \/ \E ok \in BOOLEAN : FineReturns(ok)
  \/ \E stage \in {"fine", "detect"}, s \in ExecSlots, o \in Origins : ExecuteStart(stage, s, o)
  \/ \E req \in exec_pending, ok \in BOOLEAN : ExecuteReturns(req, ok)
  \/ \E i \in DOMAIN Peers, ok \in BOOLEAN, rtt \in RttValues, data \in HealthData :
       RefreshPeer(i, ok, rtt, data)

Spec == Init /\ [][Next]_vars

\* the steps of the worker, the peer monitor, the /execute handler and the uploader
WorkerNext ==
  \/ WorkerTake
  \/ GetBaselineReturns
  \/ \E ok \in BOOLEAN : EstimateReturns(ok)
  \/ \E outcome \in DetectOutcomes : DetectReturns(outcome)
  \/ \E ok \in BOOLEAN : RemoteReturns(ok)
  \/ \E ok \in BOOLEAN : FineReturns(ok)
  \/ \E i \in DOMAIN Peers, ok \in BOOLEAN, rtt \in RttValues, data \in HealthData :
       RefreshPeer(i, ok, rtt, data)

\* the worker when every stage call succeeds and no peer has answered a probe
WorkerNextOk ==
  \/ WorkerTake
  \/ GetBaselineReturns
  \/ EstimateReturns(TRUE)
  \/ \E outcome \in DetectOutcomes \ {"fail"} : DetectReturns(outcome)
  \/ FineReturns(TRUE)

\* the worker's store calls raising
RaiseNext ==
  \/ \E ok \in BOOLEAN : StoreWriteRaises(ok)
  \/ GetBaselineRaises

\* a step of the ingest worker
WorkerStep ==
  \/ WorkerTake
  \/ GetBaselineReturns
  \/ \E ok \in BOOLEAN : EstimateReturns(ok)
  \/ \E outcome \in DetectOutcomes : DetectReturns(outcome)
  \/ \E ok \in BOOLEAN : RemoteReturns(ok)
  \/ \E ok \in BOOLEAN : FineReturns(ok)
  \/ RaiseNext

ExecuteNext ==
  \/ \E s \in ExecSlots, o \in Origins : ExecuteStart("fine", s, o)
  \/ \E req \in exec_pending : ExecuteReturns(req, TRUE)

UploaderNext ==
  \/ UploaderWake
  \/ WaitersClear
  \/ UploaderList
  \/ UploaderExportBaseline
  \/ UploaderExportDetect
  \/ UploaderExportFine
  \/ \E delivered, ok \in BOOLEAN : UploaderPostReturns(delivered, ok)
  \/ UploaderMark

\* the agent without its uploader, fed by the replayer: rows in any order with event
\* times from 0 on, then the flush
NextReplay ==
  \/ \E et \in {x \in EventTimes : x >= 0}, p \in Payloads : ReplaySend(et, p)
  \/ ReplayFlush
  \/ WorkerNext

SpecReplay == Init /\ [][NextReplay]_vars

\* two payloads that differ
PayloadsTwo == {"pa", "pb"}

\* the worker when every stage call succeeds, fed by any producer with payloads that
\* differ from item to item
NextPayload ==
  \/ \E et \in EventTimes, p \in PayloadsTwo \cup {FlushPayload} : Ingest(et, p)
  \/ WorkerNextOk

SpecPayload == Init /\ [][NextPayload]_vars

\* the agent without its uploader on a store whose calls may raise, any producer; the
\* worker is scheduled fairly: ingest_q.get() returns when the queue holds an item, and
\* every stage and store call it awaits comes back or raises
NextFaulty ==
  \/ \E et \in EventTimes, p \in Payloads \cup {FlushPayload} : Ingest(et, p)
  \/ WorkerNext
  \/ RaiseNext

SpecFaulty == Init /\ [][NextFaulty]_vars /\ WF_vars(WorkerStep)

\* the whole agent, fed by the replayer and serving /execute for a peer
NextUpload ==
  \/ \E et \in EventTimes, p \in Payloads : ReplaySend(et, p)
  \/ ReplayFlush
  \/ WorkerNextOk
  \/ ExecuteNext
  \/ UploaderNext

SpecUpload == Init /\ [][NextUpload]_vars

\* a pass of uploader_loop; the POST of the first batch may fail, and the batch is then
\* built again at the next wake-up
UploaderLoop ==
  \/ UploaderWake
  \/ UploaderList
  \/ UploaderExportBaseline
  \/ UploaderExportDetect
  \/ UploaderExportFine
  \/ \E ok \in BOOLEAN : (ok \/ batch_id = 1) /\ UploaderPostReturns(ok, ok)
  \/ UploaderMark

\* the worker and the uploader of an agent fed by the replayer; the uploader is scheduled
\* fairly: the timer of wait_for runs out, and every store call and POST it awaits
\* comes back
NextSignal ==
  \/ \E et \in {x \in EventTimes : x >= 0}, p \in Payloads : ReplaySend(et, p)
  \/ ReplayFlush
  \/ WorkerNextOk
  \/ UploaderLoop
  \/ WaitersClear

SpecSignal == Init /\ [][NextSignal]_vars /\ WF_vars(UploaderLoop)

\* the whole agent and the collector, the agent being restarted on its store file and
\* the rows, all of near slots, replayed again
NextRestart ==
  \/ \E s \in NearSlots, p \in Payloads : ReplaySend(s * SlotSeconds, p)
  \/ ReplayFlush
  \/ WorkerNextOk
  \/ UploaderNext
  \/ \E delivered \in BOOLEAN : Restart(delivered)

SpecRestart == Init /\ [][NextRestart]_vars

\* the collector on its own, any client posting any request any number of times
NextCollector == \E req \in BatchReqs : PostBatch(req)

SpecCollector == Init /\ [][NextCollector]_vars

\* the offload policy on its own, applied to any snapshot
NextPick == \E n \in 0..Len(PickUrls) : \E snap \in [1..n -> PickStates] : PickStep(n, snap)

SpecPick == Init /\ [][NextPick]_vars

\* app.py ingest: s = current_slot(et, cfg.slot_seconds)
SlotStep(n, slot_seconds) ==
  /\ sl_in' = [event_time |-> n, slot_seconds |-> slot_seconds]
  /\ sl_out' = slot_of_units(n, slot_seconds)
  /\ UNCHANGED <<state_vars, store_vars, worker_vars, exec_pending, upl_vars, posts,
                 replay_vars, late_vars, quiet_vars, n_ingest, n_exec, http_status,
                 call_vars, coll_vars, pick_vars, n_restart, sig_vars, lock>>

\* current_slot on its own, applied to any event time and any positive slot_seconds
NextSlot == \E n \in SlotTimes, ss \in 1..MaxSlotSeconds : SlotStep(n, ss)

SpecSlot == Init /\ [][NextSlot]_vars

\* the agent configured with the peer urls PickUrls
InitPeers == InitState /\ peers = PeersInit(PickUrls)

\* round-trip times of a probe, and /health responses of a peer: a loaded edge node, an
\* unloaded cloud node, and a response that carries a node_id only
RttWide == {5, 35}
HealthWide ==
  {[node_id |-> "node2", node_type |-> "edge", avg_fine |-> 30, in_flight |-> 1,
    queue_len |-> 3],
   [node_id |-> "node3", node_type |-> "cloud", avg_fine |-> 0, in_flight |-> 0,
    queue_len |-> 0],
   [node_id |-> "node2"]}

\* the peer monitor on its own: probes of three peers, failing or answered
NextPeers ==
  \E i \in DOMAIN PickUrls, ok \in BOOLEAN, rtt \in RttWide, data \in HealthWide :
    RefreshPeer(i, ok, rtt, data)

SpecPeers == InitPeers /\ [][NextPeers]_vars

----------------------------------------------------------------------------
(* Properties of the slot orchestrator *)

WorkerQuiet == w_pc = "idle" /\ ingest_q = <<>>

FineSlots == {fine_result[i].slot : i \in DOMAIN fine_result}

\* C1: within one run a DetectRow is written at most once for any slot, whatever the
\* order of the items (in order, repeated, or late and far behind active_slot).
C1_DetectOnce == \A s \in DOMAIN detect_result : detect_result[s].ts <= 1

\* C2: whenever the worker is idle, the queue empty and no /execute request in progress,
\* fine_result holds a row for slot s if and only if detect_result holds a row for s
\* with abnormal = 1.
C2_FineIffAbnormal ==
  (WorkerQuiet /\ exec_pending = {}) =>
    \A s \in FineSlots \cup DOMAIN detect_result :
      (s \in FineSlots) <=> (s \in DOMAIN detect_result /\ detect_result[s].abnormal = 1)

\* C3: after the replayer's items and its one flush at last event_time + slot_seconds,
\* once the worker has drained the queue, a baseline row exists for every slot that
\* received an item (the table holds one row per slot).
C3_BaselineCoverage ==
  (flushed /\ WorkerQuiet) => got_item \subseteq DOMAIN baseline

\* C4: a late item (slot below active_slot when processed) still gets a baseline row for
\* its own slot once a later item or flush has advanced active_slot further.
C4_LateGetsBaseline ==
  WorkerQuiet => late_adv \subseteq DOMAIN baseline

\* C5: once set, active_slot never decreases: every change replaces a by n > a, and an
\* item or flush with slot <= active_slot leaves it unchanged.
C5_MonotoneActive ==
  [][ /\ (active_slot # NoSlot /\ active_slot' # active_slot) => active_slot' > active_slot
      /\ (/\ ingest_q # <<>> /\ ingest_q' = Tail(ingest_q)
          /\ active_slot # NoSlot /\ Head(ingest_q).slot <= active_slot)
           => (active_slot' = active_slot /\ w_pc' # "estimate")
      /\ (w_pc # "idle" /\ w_item.slot <= active_slot) => active_slot' = active_slot
    ]_vars

\* a late item has been processed and active_slot has since moved on to the far slot
C5_Witness == active_slot = FarSlot /\ late # {} /\ WorkerQuiet

----------------------------------------------------------------------------
(* Properties of the batch uploader *)

ClosedUnmarked == DOMAIN baseline \ DOMAIN upload_mark

CeilDiv(a, b) == (a + b - 1) \div b

Least(a, b) == IF a < b THEN a ELSE b

Ascending(seq) == \A i, j \in DOMAIN seq : i < j => seq[i] < seq[j]

\* C6: if upload_mark holds (s, batch_id), every baseline, detect_result and fine_result
\* row now stored for s was in the payload of the batch POSTed under that batch_id.
C6_MarkImpliesSent ==
  \A s \in DOMAIN upload_mark :
    /\ upload_mark[s] \in DOMAIN posts
    /\ s \in DOMAIN baseline =>
         [slot |-> s, row |-> baseline[s]] \in posts[upload_mark[s]].baseline
    /\ s \in DOMAIN detect_result =>
         [slot |-> s, row |-> detect_result[s]] \in posts[upload_mark[s]].detect
    /\ \A i \in DOMAIN fine_result :
         fine_result[i].slot = s =>
           [id |-> i, row |-> fine_result[i]] \in posts[upload_mark[s]].fine

\* C7 as stated: without network failure and without a further closure, n closed
\* unmarked slots are all marked after ceil(n / upload_every) uploader rounds.
C7_AllMarkedWithinCeil ==
  q_r >= CeilDiv(q_n, UploadEvery) => ClosedUnmarked = {}

\* C7 as amended: without network failure and without a further closure, after r
\* uploader rounds upload_every * min(r, floor(n / upload_every)) of the n closed
\* unmarked slots are marked, the smallest ones; the last n mod upload_every slots stay
\* unmarked however many rounds follow.
C7_MarkedWithinFloor ==
  /\ Cardinality(ClosedUnmarked) =
       q_n - UploadEvery * Least(q_r, q_n \div UploadEvery)
  /\ \A m \in DOMAIN upload_mark, s \in ClosedUnmarked : m < s

\* three slots were closed, one round has marked two of them and the third one waits
C7_Witness ==
  q_n = UploadEvery + 1 /\ q_r = 1 /\ Cardinality(ClosedUnmarked) = 1 /\ u_pc = "wait"

\* C8: once no batch is due, an uploader wake that happens without a new closure sends
\* no POST and leaves the four tables unchanged.
C8_UploadIdempotent ==
  [][ (/\ u_pc \in {"wait", "list"}
       /\ u_pc' # u_pc
       /\ Cardinality(ClosedUnmarked) < UploadEvery)
        => (/\ u_pc' \in {"wait", "list"}
            /\ posts' = posts
            /\ batch_id' = batch_id
            /\ UNCHANGED store_vars)
    ]_vars

\* the uploader has marked a batch and is awake again with less than a batch to ship
C8_Witness ==
  u_pc = "list" /\ DOMAIN upload_mark # {} /\ Cardinality(ClosedUnmarked) < UploadEvery

\* C9: a wake ships at most one batch; the batch is exactly the upload_every smallest
\* closed unmarked slots in ascending order; with fewer than upload_every of them the
\* wake sends no POST and writes no mark.
C9_BatchIsFirstSlots ==
  [][ /\ (u_pc = "list" /\ u_pc' # "list") =>
            IF Cardinality(ClosedUnmarked) < UploadEvery
            THEN u_pc' = "wait" /\ posts' = posts /\ upload_mark' = upload_mark
            ELSE /\ u_pc' = "export_baseline"
                 /\ Len(batch_slots') = UploadEvery
                 /\ Ascending(batch_slots')
                 /\ Range(batch_slots') \subseteq ClosedUnmarked
                 /\ \A s \in ClosedUnmarked \ Range(batch_slots') :
                      \A b \in Range(batch_slots') : b < s
      /\ posts' # posts =>
            /\ u_pc = "export_fine" /\ u_pc' = "post"
            /\ DOMAIN posts' = DOMAIN posts \cup {batch_id}
            /\ batch_id \notin DOMAIN posts
            /\ posts'[batch_id].slots = batch_slots
      /\ upload_mark' # upload_mark =>
            /\ u_pc = "mark" /\ u_pc' = "wait"
            /\ DOMAIN upload_mark' = DOMAIN upload_mark \cup Range(batch_slots)
      /\ (u_pc' = "list" /\ u_pc # "list") => u_pc = "wait"
      /\ (u_pc' = "export_baseline" /\ u_pc # "export_baseline") => u_pc = "list"
      /\ (u_pc # "wait" /\ u_pc # "list") => batch_slots' = batch_slots
    ]_vars

\* slots 0 and 1 went out in one batch and are marked while the far slot, closed too,
\* waits for a second closed slot
C9_Witness ==
  /\ u_pc = "wait"
  /\ DOMAIN upload_mark = {0, 1}
  /\ \E b \in DOMAIN posts : posts[b].slots = <<0, 1>>
  /\ ClosedUnmarked = {FarSlot}

\* C10: when the POST fails the uploader writes no mark and changes no row, and the
\* next wake selects the same slots again.
C10_FailedPostKeepsSlots ==
  [][ /\ (u_pc = "post" /\ u_pc' # "post" /\ ~post_ok') =>
            (u_pc' = "wait" /\ UNCHANGED store_vars)
      /\ upload_mark' # upload_mark => post_ok
      /\ (u_pc = "list" /\ u_pc' # "list" /\ ~post_ok) =>
            (u_pc' = "export_baseline" /\ batch_slots' = batch_slots)
    ]_vars

\* the first batch failed and the second one, with the same slots, is on its way
C10_Witness ==
  /\ u_pc = "post" /\ ~post_ok
  /\ DOMAIN posts = {1, 2}
  /\ posts[1].slots = posts[2].slots
  /\ upload_mark = EmptyMap

----------------------------------------------------------------------------
(* Properties of upload marks across restarts, and of the collector *)

\* C11: a slot that has an upload mark is never again in a batch POSTed by the uploader
\* and the batch_id of its mark never changes, a restart of the agent on the same store
\* file and a replay of the same events included.
C11_MarkedNeverReshipped ==
  [][ /\ \A s \in DOMAIN upload_mark :
           s \in DOMAIN upload_mark' /\ upload_mark'[s] = upload_mark[s]
      /\ \A b \in DOMAIN posts' \ DOMAIN posts :
           Range(posts'[b].slots) \cap DOMAIN upload_mark = {}
    ]_vars

\* slots 0 and 1 were marked, the agent was restarted, the replay has closed both slots
\* again and the uploader has made a round since
C11_Witness ==
  /\ n_restart = 1
  /\ DOMAIN upload_mark = {0, 1}
  /\ baseline[0].ts = 2 /\ baseline[1].ts = 2
  /\ WorkerQuiet /\ ~upload_event /\ u_pc = "wait"

\* C12: when a batch was stored by the collector but the agent did not reach
\* mark_uploaded (response lost or late, or a crash before the mark), the re-shipment of
\* those slots leaves every fine row of the agent stored once in fine_all.
C12_NoDuplicateFine ==
  \A i, j \in DOMAIN fine_all : fine_all[i] = fine_all[j] => i = j

\* C13: a POST whose batch_id the collector has already stored is answered ok and
\* changes nothing: upload_batches keeps its one row for that batch_id and baseline_all,
\* detect_all and fine_all are unchanged.
C13_SameBatchIsNoOp ==
  [][ \A req \in BatchReqs :
        (PostBatch(req) /\ req.batch_id \in DOMAIN upload_batches) =>
          /\ c_status' = 200
          /\ UNCHANGED <<upload_batches, baseline_all, detect_all, fine_all>>
    ]_vars

\* two requests were answered ok and the collector holds one batch with its one fine row
C13_Witness ==
  /\ c_served = 2 /\ c_status = 200
  /\ DOMAIN upload_batches = {1}
  /\ Len(fine_all) = 1
  /\ DOMAIN baseline_all = {<<Self, 0>>}

----------------------------------------------------------------------------
(* Properties of the offload policy and of the fine dispatch *)

PickScore(ps) == ps.last_rtt_ms + ps.avg_fine + 30 * ps.in_flight + 10 * ps.queue_len

OkPeers == {i \in DOMAIN pk_snapshot : pk_snapshot[i].ok}

\* C14: pick_target_for_fine returns the URL of a peer with ok = true whose score
\* last_rtt_ms + avg_ms[fine] + 30 * in_flight + 10 * queue_len is minimal among the ok
\* peers, the first such peer in iteration order on ties, and no target when no peer is
\* ok; the target is a function of the snapshot.
C14_PickIsFirstArgmin ==
  IF OkPeers = {}
  THEN pk_target = NoTarget
  ELSE \E i \in OkPeers :
         /\ pk_target = PickUrls[i]
         /\ \A j \in OkPeers :
              /\ PickScore(pk_snapshot[i]) <= PickScore(pk_snapshot[j])
              /\ PickScore(pk_snapshot[i]) = PickScore(pk_snapshot[j]) => i <= j

\* the first peer is down, the other two are up with equal scores made of different
\* terms, and the second one is picked
C14_Witness ==
  /\ Len(pk_snapshot) = 3
  /\ OkPeers = {2, 3}
  /\ pk_snapshot[2].last_rtt_ms = 35 /\ pk_snapshot[3].last_rtt_ms = 5
  /\ PickScore(pk_snapshot[2]) = PickScore(pk_snapshot[3])
  /\ pk_target = "peer2"

----------------------------------------------------------------------------
(* Properties of the request handlers and of the flush probe *)

\* C15: the ingest queue never holds more than its capacity; a request that arrives
\* while the queue is full is answered 429 and leaves the queue and the rest of the
\* agent's state unchanged; every other request appends exactly one item.
C15_QueueBounded ==
  /\ [](Len(ingest_q) <= QueueMax)
  /\ [][ /\ (http_status' = 429 /\ http_status # 429) =>
              /\ Len(ingest_q) = QueueMax
              /\ UNCHANGED <<state_vars, store_vars, worker_vars, exec_pending, upl_vars,
                             n_ingest, call_vars>>
         /\ n_ingest' = n_ingest + 1 =>
              /\ Len(ingest_q) < QueueMax
              /\ http_status' = 200
              /\ Len(ingest_q') = Len(ingest_q) + 1
              /\ ingest_q' = Append(ingest_q, ingest_q'[Len(ingest_q')])
         /\ Len(ingest_q') > Len(ingest_q) => n_ingest' = n_ingest + 1
       ]_vars

\* the queue is full and the last request was turned away
C15_Witness == Len(ingest_q) = QueueMax /\ http_status = 429

\* the FineRow a dispatch of the worker writes
DispatchRow(offloaded, executed_on, ok) ==
  [slot |-> w_item.slot, offloaded |-> offloaded, executed_on |-> executed_on,
   origin |-> Self, ok |-> IF ok THEN 1 ELSE 0]

NoPeerOk == \A i \in DOMAIN peers : ~peers[i].ok

\* C16: a fine dispatch that finds no peer with ok = true makes no remote call and
\* writes exactly one FineRow for the slot, offloaded = 0, executed_on = self,
\* origin = self, its ok flag being the outcome of the local fine call.
C16_LocalFineOneRow ==
  [][ /\ (w_pc = "detect" /\ w_pc' \in {"fine", "remote"} /\ NoPeerOk) =>
            (w_pc' = "fine" /\ w_target' = NoTarget /\ fine_result' = fine_result)
      /\ (w_pc = "fine" /\ w_target = NoTarget /\ w_pc' = "fine") =>
            (Len(fine_result') > Len(fine_result) =>
               fine_result'[Len(fine_result')].origin # Self)
      /\ (w_pc = "fine" /\ w_target = NoTarget /\ w_pc' # "fine") =>
            /\ w_pc' = "idle"
            /\ last_call'.stage = "fine"
            /\ fine_result' = Append(fine_result, DispatchRow(0, Self, last_call'.ok))
    ]_vars

\* no peer is up, the local fine call of slot 0 has failed and its one row says so
C16_Witness ==
  /\ NoPeerOk /\ w_pc = "idle"
  /\ last_call = [stage |-> "fine", ok |-> FALSE]
  /\ fine_result = <<[slot |-> 0, offloaded |-> 0, executed_on |-> Self,
                      origin |-> Self, ok |-> 0]>>

\* C17: when the dispatch has picked a target and the remote /execute call returns ok,
\* the origin writes exactly one FineRow (offloaded = 1, executed_on = target,
\* origin = self, ok = 1), does not call the local fine stage and writes no fallback row.
C17_RemoteOkOneRow ==
  [][ (w_pc = "remote" /\ w_pc' # "remote" /\ last_call'.ok) =>
         /\ last_call'.stage = "remote"
         /\ w_target \in Range(Peers)
         /\ fine_result' = Append(fine_result, DispatchRow(1, w_target, TRUE))
         /\ w_pc' = "idle"
    ]_vars

\* the one row of slot 0 is the one of the remote execution on peer1
C17_Witness ==
  /\ w_pc = "idle"
  /\ last_call = [stage |-> "remote", ok |-> TRUE]
  /\ fine_result = <<[slot |-> 0, offloaded |-> 1, executed_on |-> "peer1",
                      origin |-> Self, ok |-> 1]>>

\* C18: when the remote /execute call fails, the origin first writes the FineRow of the
\* failed attempt (offloaded = 1, executed_on = target, ok = 0), only then runs the local
\* fine stage and writes a second FineRow (offloaded = 0, executed_on = self): the
\* dispatch leaves exactly two rows, the remote one with the smaller id.
C18_RemoteFailThenLocal ==
  [][ /\ (w_pc = "remote" /\ w_pc' # "remote" /\ ~last_call'.ok) =>
            /\ last_call'.stage = "remote"
            /\ fine_result' = Append(fine_result, DispatchRow(1, w_target, FALSE))
            /\ w_pc' = "fine" /\ w_target' = w_target /\ w_item' = w_item
      /\ (w_pc = "fine" /\ w_target # NoTarget /\ w_pc' # "fine") =>
            /\ w_pc' = "idle"
            /\ last_call'.stage = "fine"
            /\ fine_result' = Append(fine_result, DispatchRow(0, Self, last_call'.ok))
            /\ \E k \in DOMAIN fine_result :
                 /\ fine_result[k] = DispatchRow(1, w_target, FALSE)
                 /\ \A j \in (k + 1)..Len(fine_result) : fine_result[j].origin # Self
      /\ (w_pc = "fine" /\ w_target # NoTarget /\ w_pc' = "fine") =>
            (Len(fine_result') > Len(fine_result) =>
               fine_result'[Len(fine_result')].origin # Self)
    ]_vars

\* slot 0 has the row of the failed attempt on peer1 and, after it, the local row
C18_Witness ==
  /\ w_pc = "idle"
  /\ last_call = [stage |-> "fine", ok |-> TRUE]
  /\ fine_result = <<[slot |-> 0, offloaded |-> 1, executed_on |-> "peer1",
                      origin |-> Self, ok |-> 0],
                     [slot |-> 0, offloaded |-> 0, executed_on |-> Self,
                      origin |-> Self, ok |-> 1]>>

\* C19: a POST /execute whose stage is not "fine" is answered 400 and has no effect:
\* in_flight, the EWMAs and fine_result are unchanged and the local fine stage is not
\* called (no request of another stage is ever in progress).
C19_OtherStageRefused ==
  /\ [](\A req \in exec_pending : req.stage = "fine")
  /\ [][ /\ (http_status' = 400 /\ http_status # 400) =>
              UNCHANGED <<state_vars, store_vars, worker_vars, exec_pending, call_vars,
                          n_exec>>
         /\ \A s \in ExecSlots, o \in Origins :
              ExecuteStart("detect", s, o) => (http_status' = 400 /\ in_flight' = in_flight)
       ]_vars

\* a request for another stage has been refused and nothing has run or been written
C19_Witness ==
  /\ http_status = 400
  /\ in_flight = 0 /\ ewma = {} /\ fine_result = <<>> /\ exec_pending = {}

\* the item the worker works on in this step: the one it takes, or the one in hand
TakesItem == w_pc = "idle" /\ ingest_q # <<>> /\ ingest_q' = Tail(ingest_q)

ItemInStep == IF TakesItem THEN Head(ingest_q) ELSE w_item

WorksOnItem == TakesItem \/ (w_pc # "idle" /\ (w_pc' # w_pc \/ w_s' # w_s))

\* C20: processing a flush item performs slot advancement only: it never writes
\* slot_payload_cache[slot], never sets detect_done_for_slot[slot], never calls detect
\* or fine and writes no DetectRow or FineRow; a later first non-flush item for that
\* slot still triggers first-sight detect.
C20_FlushAdvancesOnly ==
  [][ WorksOnItem =>
        LET item == ItemInStep IN
        IF item.payload = FlushPayload
        THEN /\ w_pc' \in {"idle", "estimate"}
             /\ detect_result' = detect_result
             /\ fine_result' = fine_result
             /\ item.slot \in detect_done_for_slot' => item.slot \in detect_done_for_slot
             /\ item.slot \in DOMAIN slot_payload_cache' =>
                  /\ item.slot \in DOMAIN slot_payload_cache
                  /\ slot_payload_cache'[item.slot] = slot_payload_cache[item.slot]
        ELSE (w_pc \in {"idle", "estimate"} /\ w_pc' # "estimate"
              /\ item.slot \notin detect_done_for_slot) =>
               /\ w_pc' = "get_baseline" /\ w_item' = item
               /\ item.slot \in detect_done_for_slot'
    ]_vars

\* a flush for slot 0 came first and left no trace but active_slot = 0; the item of
\* slot 0 that came after it is at its first-sight detect
C20_Witness ==
  /\ n_ingest = 2 /\ ingest_q = <<>> /\ http_status = 200
  /\ active_slot = 0
  /\ w_pc = "detect" /\ w_item.slot = 0
  /\ detect_result = EmptyMap /\ baseline = EmptyMap /\ fine_result = <<>>
  /\ last_call = NoCall

----------------------------------------------------------------------------
\* the step in which the outstanding estimate call of the worker comes back
EstimateComesBack == w_pc = "estimate" /\ (w_pc' # "estimate" \/ w_s' # w_s)

\* the step in which the outstanding detect call of the worker comes back
DetectComesBack == w_pc = "detect" /\ w_pc' # "detect"

\* C21: a failed stage call still persists a row: a failed estimate for slot s writes
\* baseline(s) with the error payload, and a failed detect writes the DetectRow of its
\* slot with abnormal = 0 and the error payload.
C21_FailedCallStillWritesRow ==
  [][ /\ (EstimateComesBack /\ ~last_call'.ok) =>
           /\ w_s \in DOMAIN baseline'
           /\ baseline'[w_s] = [payload |-> slot_payload_cache[w_s], ok |-> FALSE,
                                ts |-> NextTs(baseline, w_s)]
      /\ (DetectComesBack /\ ~last_call'.ok) =>
           /\ w_item.slot \in DOMAIN detect_result'
           /\ detect_result'[w_item.slot] = [abnormal |-> 0, ok |-> FALSE,
                                             ts |-> NextTs(detect_result, w_item.slot)]
    ]_vars

\* the estimate of slot 0 and the detect of slot 1 both failed and both left their row
C21_Witness ==
  /\ 0 \in DOMAIN baseline /\ ~baseline[0].ok
  /\ 1 \in DOMAIN detect_result /\ ~detect_result[1].ok /\ detect_result[1].abnormal = 0
  /\ last_call = [stage |-> "detect", ok |-> FALSE]

----------------------------------------------------------------------------
\* the items taken off ingest_q so far
Dequeued == n_ingest - Len(ingest_q)

\* C22: the ingest worker never stops because of a failure: when processing an item
\* raises, that item is dropped and the worker is back at taking the next item; and with
\* a fairly scheduled worker whose calls all come back or raise, every item accepted by
\* /ingest is eventually dequeued.
C22_WorkerSurvivesFailures ==
  /\ [](w_pc \in {"idle", "estimate", "get_baseline", "detect", "remote", "fine"})
  /\ [][ (GetBaselineRaises \/ \E ok \in BOOLEAN : StoreWriteRaises(ok)) =>
            /\ w_pc' = "idle" /\ w_item' = NoItem
            /\ ingest_q' = ingest_q
        ]_vars
  /\ \A k \in 1..MaxIngest : (n_ingest >= k) ~> (Dequeued >= k)

\* the write of the first item's detect row raised, the item left no row, and the worker
\* has taken the item that came after it
C22_Witness ==
  /\ "detect" \in ewma
  /\ detect_result = EmptyMap
  /\ detect_done_for_slot = {0, 1}
  /\ Dequeued = 2
  /\ w_pc = "get_baseline" /\ w_item.slot = 1

----------------------------------------------------------------------------
\* active_slot goes from a slot a to a slot n > a in this step
Advances == active_slot # NoSlot /\ active_slot' > active_slot

\* the step in which an estimate call of the worker goes out
EstimateGoesOut == w_pc' = "estimate" /\ (w_pc # "estimate" \/ w_s' # w_s)

\* the slot from which the advancement under way still has to close
ClosedUpTo == IF w_pc = "estimate" THEN w_s + 1 ELSE active_slot

\* the cached slots from `from` up to but not including `to`
CachedIn(from, to) == {s \in DOMAIN slot_payload_cache : from <= s /\ s < to}

\* C23: advancement closes before it advances: whenever active_slot changes from a to
\* n > a, estimate has completed and the baseline row has been persisted for every slot
\* of [a, n) with a cached payload, in ascending slot order. Every estimate call of an
\* advancement goes out for the least cached slot not yet closed, while active_slot still
\* stands; its return writes the row; active_slot moves only when no cached slot of the
\* range is left.
C23_ClosesBeforeAdvancing ==
  [][ /\ Advances =>
           /\ \A s \in CachedIn(active_slot, active_slot') :
                 /\ s \in DOMAIN baseline'
                 /\ baseline'[s].payload = slot_payload_cache[s]
           /\ CachedIn(ClosedUpTo, active_slot') = {}
           /\ active_slot' = ItemInStep.slot
      /\ EstimateGoesOut =>
           /\ active_slot' = active_slot
           /\ w_s' \in CachedIn(ClosedUpTo, ItemInStep.slot)
           /\ CachedIn(ClosedUpTo, w_s') = {}
      /\ EstimateComesBack =>
           /\ w_s \in DOMAIN baseline'
           /\ baseline'[w_s].ts = NextTs(baseline, w_s)
           /\ baseline'[w_s].payload = slot_payload_cache[w_s]
      /\ (w_pc = "estimate" /\ ~EstimateComesBack) =>
           /\ baseline' = baseline
           /\ slot_payload_cache' = slot_payload_cache
           /\ active_slot' = active_slot
    ]_vars

\* slot 0 was active and cached when the item of slot 51 arrived: it was estimated, its
\* row written, and only then active_slot moved to 51
C23_Witness ==
  /\ active_slot = FarSlot
  /\ DOMAIN baseline = {0} /\ baseline[0].ts = 1
  /\ last_call.stage = "estimate"
  /\ w_pc = "get_baseline" /\ w_item.slot = FarSlot

----------------------------------------------------------------------------
\* C24: when the first non-flush item of slot s advances active_slot from a value at most
\* s-1 and slot s-1 has a cached payload, the baseline handed to detect(s) is the row of
\* slot s-1 written by that advancement, not nil; when slot s-1 has no baseline row,
\* detect(s) is called with a nil baseline.
C24_DetectGetsPreviousBaseline ==
  /\ [](w_pc = "detect" => w_base = get_baseline(baseline, w_item.slot - 1))
  /\ [][ /\ (/\ Advances /\ ItemInStep.payload # FlushPayload
              /\ active_slot <= ItemInStep.slot - 1
              /\ (ItemInStep.slot - 1) \in DOMAIN slot_payload_cache) =>
               /\ EstimateComesBack /\ w_s = ItemInStep.slot - 1
               /\ (ItemInStep.slot - 1) \in DOMAIN baseline'
               /\ baseline'[ItemInStep.slot - 1].ts = NextTs(baseline, ItemInStep.slot - 1)
               /\ w_pc' = "get_baseline" /\ w_item' = ItemInStep
         /\ w_pc = "get_baseline" =>
               /\ baseline' = baseline
               /\ w_pc' \in {"get_baseline", "detect"}
               /\ (w_pc' = "detect" =>
                    /\ w_item' = w_item
                    /\ w_base' = IF (w_item.slot - 1) \in DOMAIN baseline
                                 THEN {baseline[w_item.slot - 1]} ELSE {})
        ]_vars

\* the item of slot 1 closed slot 0, and its detect call is out with the row of slot 0
\* that the closure wrote
C24_Witness ==
  /\ w_pc = "detect" /\ w_item.slot = 1
  /\ active_slot = 1
  /\ 0 \in DOMAIN baseline /\ baseline[0].ts = 1
  /\ w_base = {baseline[0]}
  /\ last_call.stage = "estimate"

----------------------------------------------------------------------------
\* C25: the fine stage is dispatched for a slot only when the detect call of that slot
\* came back ok with a true abnormal field; a failed detect call, a result without an
\* abnormal field, or a 2xx response that is not JSON leads to a DetectRow with
\* abnormal = 0 and to no fine call, local or remote.
C25_FineOnlyWhenAbnormal ==
  /\ [](w_pc \in {"remote", "fine"} =>
          /\ w_item.slot \in DOMAIN detect_result
          /\ detect_result[w_item.slot].abnormal = 1
          /\ detect_result[w_item.slot].ok)
  /\ [][ /\ \A outcome \in DetectOutcomes :
             DetectReturns(outcome) =>
               IF outcome = "abnormal"
               THEN /\ w_pc' \in {"remote", "fine"}
                    /\ detect_result'[w_item.slot].abnormal = 1
               ELSE /\ w_pc' = "idle"
                    /\ detect_result'[w_item.slot].abnormal = 0
                    /\ fine_result' = fine_result
         /\ (w_pc' \in {"remote", "fine"} /\ w_pc \notin {"remote", "fine"}) =>
               /\ DetectComesBack
               /\ last_call' = [stage |-> "detect", ok |-> TRUE]
        ]_vars

\* the detect call of slot 0 came back ok without raising the flag: the row says
\* abnormal = 0, the worker is back at the queue and no fine row exists
C25_Witness ==
  /\ last_call = [stage |-> "detect", ok |-> TRUE]
  /\ 0 \in DOMAIN detect_result
  /\ detect_result[0].abnormal = 0 /\ detect_result[0].ok
  /\ w_pc = "idle" /\ fine_result = <<>> /\ ewma = {"detect"}

----------------------------------------------------------------------------
\* the step leaves the caches as they were, but for the entries that processing a
\* non-flush item writes for the item's own slot
CachesKept(item) ==
  LET own == IF item.payload = FlushPayload THEN {} ELSE {item.slot} IN
  /\ DOMAIN slot_payload_cache \subseteq DOMAIN slot_payload_cache'
  /\ DOMAIN slot_payload_cache' \subseteq DOMAIN slot_payload_cache \cup own
  /\ \A s \in DOMAIN slot_payload_cache \ own : slot_payload_cache'[s] = slot_payload_cache[s]
  /\ detect_done_for_slot \subseteq detect_done_for_slot'
  /\ detect_done_for_slot' \subseteq detect_done_for_slot \cup own

\* C26: slot advancement with new_slot <= active_slot does nothing: no estimate, no
\* baseline row, no upload_event, active_slot and both caches as they were; and the very
\* first advancement, with active_slot unset, only sets active_slot to new_slot and runs
\* no estimate.
C26_NoAdvanceDoesNothing ==
  [][ TakesItem =>
        LET item == Head(ingest_q) IN
        /\ (active_slot # NoSlot /\ item.slot <= active_slot) =>
              /\ active_slot' = active_slot
              /\ w_pc' \in {"idle", "get_baseline"}
              /\ in_flight' = in_flight
              /\ baseline' = baseline
              /\ upload_event' = upload_event
              /\ CachesKept(item)
        /\ active_slot = NoSlot =>
              /\ active_slot' = item.slot
              /\ w_pc' \in {"idle", "get_baseline"}
              /\ in_flight' = in_flight
              /\ baseline' = baseline
              /\ upload_event' = upload_event
              /\ CachesKept(item)
    ]_vars

\* the first item set active_slot to 1; two more items with slots at most 1, one of
\* them of slot 0, were processed without an estimate, a baseline row or upload_event
C26_Witness ==
  /\ active_slot = 1
  /\ DOMAIN slot_payload_cache = {0, 1} /\ 0 \in late
  /\ n_ingest = 3 /\ WorkerQuiet
  /\ baseline = EmptyMap /\ ~upload_event /\ "estimate" \notin ewma

----------------------------------------------------------------------------
\* the slots for which the worker has processed a non-flush item
GotPayload == DOMAIN first_payload

\* C27: a baseline row exists only for slots that received at least one non-flush
\* payload: a slot skipped by an advancement without a cached payload gets no estimate
\* call and no row, and a flush never creates a baseline for its own slot.
C27_BaselineOnlyForPayloadSlots ==
  /\ [](DOMAIN baseline \subseteq GotPayload)
  /\ [][ /\ EstimateGoesOut => (w_s' \in DOMAIN slot_payload_cache /\ w_s' \in GotPayload)
         /\ Advances =>
              \A s \in active_slot..(active_slot' - 1) :
                s \notin DOMAIN slot_payload_cache =>
                  (s \in DOMAIN baseline' => s \in DOMAIN baseline)
         /\ (WorksOnItem /\ ItemInStep.payload = FlushPayload) =>
              /\ first_payload' = first_payload
              /\ w_pc' = "estimate" => w_s' # ItemInStep.slot
              /\ ItemInStep.slot \in DOMAIN baseline' => ItemInStep.slot \in DOMAIN baseline
        ]_vars

\* an item of slot 0 and then a flush of slot 51: the flush closed slot 0, skipped
\* slots 1 to 50 and left no row for any of them nor for its own slot
C27_Witness ==
  /\ active_slot = FarSlot /\ n_ingest = 2 /\ WorkerQuiet
  /\ GotPayload = {0}
  /\ DOMAIN baseline = {0}

----------------------------------------------------------------------------
\* the step in which the worker is done with the advancement for a non-flush item and
\* goes on to the cache write
WritesCache ==
  /\ WorksOnItem /\ w_pc \in {"idle", "estimate"} /\ w_pc' # "estimate"
  /\ ItemInStep.payload # FlushPayload

\* C28: last-writer-wins within a slot: the payload sent to estimate when slot s is
\* closed is that of the last non-flush item of slot s processed before the closure,
\* whereas the payload sent to detect and to fine for slot s is that of the first item
\* of slot s.
C28_LastWriterWins ==
  /\ [](w_pc \in {"get_baseline", "detect", "remote", "fine"} =>
          w_item.payload = first_payload[w_item.slot])
  /\ [][ /\ WritesCache =>
              slot_payload_cache'[ItemInStep.slot] = ItemInStep.payload
         /\ ~WritesCache =>
              \A s \in DOMAIN slot_payload_cache' :
                s \in DOMAIN slot_payload_cache /\ slot_payload_cache'[s] = slot_payload_cache[s]
         /\ EstimateComesBack => baseline'[w_s].payload = slot_payload_cache[w_s]
        ]_vars

----------------------------------------------------------------------------
\* C29: cache horizon: whenever the worker is between items, every key of
\* slot_payload_cache and of detect_done_for_slot is at least active_slot - 50.
C29_CacheHorizon ==
  (w_pc = "idle" /\ active_slot # NoSlot) =>
    \A k \in DOMAIN slot_payload_cache \cup detect_done_for_slot :
      k >= active_slot - PruneHorizon

----------------------------------------------------------------------------
\* C30: a failed health probe of a peer sets its ok to false and leaves its node_id,
\* node_type, avg_ms, in_flight and queue_len at the values of the last successful
\* probe; a successful probe overwrites all of them from the response and sets ok to
\* true; the state of the other peers is untouched by either.
C30_ProbeUpdatesOnePeer ==
  [][ \A i \in DOMAIN peers, ok \in BOOLEAN, rtt \in RttWide, data \in HealthWide :
        RefreshPeer(i, ok, rtt, data) =>
          /\ \A j \in DOMAIN peers \ {i} : peers'[j] = peers[j]
          /\ peers'[i].ok = ok
          /\ IF ok
             THEN /\ peers'[i].node_id = HealthField(data, "node_id", "")
                  /\ peers'[i].node_type = HealthField(data, "node_type", "")
                  /\ peers'[i].avg_fine = HealthField(data, "avg_fine", 0)
                  /\ peers'[i].in_flight = HealthField(data, "in_flight", 0)
                  /\ peers'[i].queue_len = HealthField(data, "queue_len", 0)
             ELSE /\ peers'[i].node_id = peers[i].node_id
                  /\ peers'[i].node_type = peers[i].node_type
                  /\ peers'[i].avg_fine = peers[i].avg_fine
                  /\ peers'[i].in_flight = peers[i].in_flight
                  /\ peers'[i].queue_len = peers[i].queue_len
    ]_vars

\* the first peer answered as a loaded edge node and then failed a probe: it is down
\* with the load it last reported; the second is up; the third was never reached
C30_Witness ==
  /\ ~peers[1].ok /\ peers[1].node_id = "node2" /\ peers[1].node_type = "edge"
  /\ peers[1].avg_fine = 30 /\ peers[1].in_flight = 1 /\ peers[1].queue_len = 3
  /\ peers[2].ok /\ peers[2].node_id = "node3"
  /\ peers[3] = PeerStateInit

----------------------------------------------------------------------------
\* the rows appended to fine_result in this step
NewFineRows == {fine_result'[i] : i \in (DOMAIN fine_result') \ (DOMAIN fine_result)}

\* C31: every accepted POST /execute with stage "fine" runs the local fine stage once
\* and appends exactly one FineRow on the executing node, with executed_on = self and
\* origin = the caller's node id, whether the fine call succeeded or failed, before the
\* response is returned.
C31_ExecuteOneRow ==
  [][ /\ \A s \in ExecSlots, o \in Origins :
            (ExecuteStart("fine", s, o) /\ http_status' # 400) =>
              /\ exec_pending' = exec_pending \cup {[stage |-> "fine", slot |-> s, origin |-> o]}
              /\ [stage |-> "fine", slot |-> s, origin |-> o] \notin exec_pending
              /\ fine_result' = fine_result
      /\ \A req \in exec_pending, ok \in BOOLEAN :
            ExecuteReturns(req, ok) =>
              /\ fine_result' = Append(fine_result,
                                   [slot |-> req.slot, offloaded |-> 1, executed_on |-> Self,
                                    origin |-> req.origin, ok |-> IF ok THEN 1 ELSE 0])
              /\ exec_pending' = exec_pending \ {req}
              /\ http_status' = 200
      /\ \A req \in exec_pending \cap exec_pending' :
            \A r \in NewFineRows : r.origin # req.origin \/ r.slot # req.slot
      /\ exec_pending' # exec_pending => Cardinality(NewFineRows) <= 1
      /\ Len(fine_result') >= Len(fine_result)
      /\ \A i \in DOMAIN fine_result : fine_result'[i] = fine_result[i]
    ]_vars

\* the fine call served for node2's slot 0 failed: the response is out and the one row
\* of the request says executed_on = self, origin = node2, ok = 0
C31_Witness ==
  /\ fine_result = <<[slot |-> 0, offloaded |-> 1, executed_on |-> Self,
                      origin |-> "node2", ok |-> 0]>>
  /\ exec_pending = {} /\ n_exec = 1 /\ http_status = 200
  /\ last_call = [stage |-> "execute", ok |-> FALSE]

----------------------------------------------------------------------------
----------------------------------------------------------------------------
\* the stage calls outstanding on this node: the one of the worker (estimate, detect,
\* remote /execute or local fine), and the fine calls of the /execute requests served
Outstanding ==
  (IF w_pc \in {"estimate", "detect", "remote", "fine"} THEN 1 ELSE 0)
    + Cardinality(exec_pending)

\* C33: in every reachable state in_flight is non-negative and equals the number of
\* stage calls outstanding on this node, under any interleaving of the worker with
\* /execute handlers; it is 0 when no call is outstanding.
C33_InFlightCountsCalls ==
  /\ in_flight >= 0
  /\ in_flight = Outstanding
  /\ (w_pc \in {"idle", "get_baseline"} /\ exec_pending = {}) => in_flight = 0

\* the worker's detect call and the fine call of a served request are out: in_flight = 2
C33_Witness ==
  /\ w_pc = "detect" /\ exec_pending # {}
  /\ in_flight = 2
  /\ "estimate" \in ewma

----------------------------------------------------------------------------
\* C34: ingest items are processed strictly one at a time and in the order in which
\* /ingest accepted them: the worker never starts an item before the previous item's
\* advancement, detect and fine dispatch have finished, so no two advancements or
\* first-sight checks interleave.  /ingest appends at the tail of ingest_q; the worker
\* takes the head, and only when it is done with the item before.
C34_OneItemAtATimeInOrder ==
  [][ /\ ingest_q' # ingest_q =>
           \/ /\ Len(ingest_q') = Len(ingest_q) + 1
              /\ SubSeq(ingest_q', 1, Len(ingest_q)) = ingest_q
              /\ w_pc' = w_pc /\ w_item' = w_item
           \/ /\ ingest_q # <<>> /\ ingest_q' = Tail(ingest_q)
              /\ w_pc = "idle"
              /\ w_pc' # "idle" => w_item' = Head(ingest_q)
      /\ (w_pc # "idle" /\ w_pc' # "idle") => w_item' = w_item
      /\ (w_pc = "idle" /\ w_pc' # "idle") => (ingest_q # <<>> /\ ingest_q' = Tail(ingest_q))
      /\ (\/ active_slot' # active_slot
          \/ slot_payload_cache' # slot_payload_cache
          \/ detect_done_for_slot' # detect_done_for_slot) =>
           /\ WorksOnItem
           /\ w_pc \in {"idle", "estimate"}
           /\ active_slot' \in {active_slot, ItemInStep.slot}
    ]_vars

\* two items of different slots were accepted while the worker was at the detect call of
\* a first one: they wait in the order of acceptance behind the item in hand
C34_Witness ==
  /\ w_pc = "detect" /\ w_item.slot = 0
  /\ Len(ingest_q) = 2 /\ ingest_q[1].slot = FarSlot /\ ingest_q[2].slot = 1
  /\ n_ingest = 3

----------------------------------------------------------------------------
\* C35: no closure signal is lost.  After every slot closure that sets upload_event the
\* uploader loop eventually begins a check of the unuploaded slots that starts after the
\* baseline of that closure was persisted, also when the signal is raised while the
\* uploader is exporting or POSTing, or after timer wake-ups left shielded waiters on
\* the event; and a signal raised while the loop waits wakes the loop itself, whatever
\* waiters are left: the event is never cleared from under a loop that stays waiting.
C35_NoSignalLost ==
  /\ unchecked ~> ~unchecked
  /\ [][(upload_event /\ ~upload_event' /\ u_pc = "wait") => u_pc' = "list"]_vars

\* the signal of a closure was raised while the uploader was POSTing, after a timer
\* wake-up had left a waiter on the event: the waiter has cleared the event, and no
\* check has begun since
C35_Witness ==
  /\ unchecked /\ ~upload_event
  /\ u_pc = "post"
  /\ waiters = 0
  /\ batch_id = 2

----------------------------------------------------------------------------
\* C36: within one run the estimate stage is invoked at most once per slot, and a
\* baseline row, once written, is never overwritten: a closed slot is not closed again
\* by a later advancement, for any sequence of items, those whose processing fails
\* part-way through an advancement included.
C36_EstimateOncePerSlot ==
  [][ /\ EstimateGoesOut => w_s' \notin est_calls
      /\ (n_restart' = n_restart) =>
            \A s \in DOMAIN baseline : s \in DOMAIN baseline' /\ baseline'[s] = baseline[s]
    ]_vars

----------------------------------------------------------------------------
\* C37: a peer is chosen as the offload target of a fine dispatch only if its most
\* recent completed health probe at the time of the snapshot succeeded; a peer that was
\* never probed successfully, or whose last probe failed, is never sent an /execute
\* request.  No peer is ok before its first probe, the ok flag of a peer changes only
\* in a probe of that peer, every probe leaves the flag at its outcome, and the target
\* of a remote call going out is a peer whose flag is set.
C37_TargetLastProbeOk ==
  /\ \A i \in DOMAIN peers : ~peers[i].ok
  /\ [][ /\ (w_pc' = "remote" /\ w_pc # "remote") =>
              \E i \in DOMAIN Peers : w_target' = Peers[i] /\ peers[i].ok
         /\ \A i \in DOMAIN Peers :
              (peers'[i] # peers[i]) =>
                 /\ \E ok \in BOOLEAN, rtt \in RttValues, data \in HealthData :
                       RefreshPeer(i, ok, rtt, data)
                 /\ \A ok \in BOOLEAN, rtt \in RttValues, data \in HealthData :
                       RefreshPeer(i, ok, rtt, data) => peers'[i].ok = ok
       ]_vars

\* the peer answered a probe and then failed one; an abnormal slot was then dispatched
\* to the local fine stage
C37_Witness ==
  /\ ~peers[1].ok /\ peers[1].node_id # ""
  /\ peers[1].last_rtt_ms # PeerStateInit.last_rtt_ms
  /\ w_pc = "fine" /\ w_target = NoTarget

----------------------------------------------------------------------------
\* C38: every fine row of a batch shipped by this node was produced by this node's own
\* fine dispatch for that slot, its origin is this node: the rows the node recorded
\* while serving /execute for a slot of another node are never exported under this
\* node's node_id for its own slot of the same number.
C38_BatchFineRowsOwnOrigin ==
  \A b \in DOMAIN posts : \A r \in posts[b].fine : r.row.origin = Self

----------------------------------------------------------------------------
\* C39: the slot of an ingest request is floor(max(event_time, 0) / slot_seconds): it is
\* never negative, every negative event_time maps to slot 0, and the mapping is
\* non-decreasing in event_time for a fixed positive slot_seconds.  With event_time =
\* n/TimeUnit, the floor q of max(n, 0)/(TimeUnit * slot_seconds) is the integer with
\* q * TimeUnit * slot_seconds <= max(n, 0) < (q + 1) * TimeUnit * slot_seconds.
C39_SlotIsFloorOfClampedTime ==
  sl_in # NoInput =>
    LET n == sl_in.event_time
        d == TimeUnit * sl_in.slot_seconds
        m == IF n > 0 THEN n ELSE 0
    IN /\ sl_out >= 0
       /\ sl_out * d <= m /\ m < (sl_out + 1) * d
       /\ n < 0 => sl_out = 0
       /\ \A e \in SlotTimes : e <= n => slot_of_units(e, sl_in.slot_seconds) <= sl_out

\* an event time of one unit, 1/TimeUnit s, below zero with slot_seconds 1: slot 0
C39_Witness ==
  /\ sl_in # NoInput /\ sl_in.event_time = 0 - 1 /\ sl_in.slot_seconds = 1
  /\ sl_out = 0

====
